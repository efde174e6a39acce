---------------------------- MODULE MCEnvelopes ----------------------------
(***************************************************************************)
(* Instances of Envelopes.  In the first, an event and a log batch are     *)
(* sent twice; and a log batch that names the services in the opposite     *)
(* order is sent with an event that differs from the first only in its     *)
(* secrets, and one that cannot be read.  In the second, the bodies of     *)
(* many requests are still on their way.                                   *)
(***************************************************************************)
EXTENDS Envelopes, TLC

CONSTANTS r1, r2, r3, h1, s1, s2, e1, e2

Event(id, secret, message) ==
    [kind |-> "event", id |-> id, message |-> message, custom |-> <<"default", "x">>,
     service |-> s1, hidden |-> {},
     data |-> ("type" :> secret) @@ ("frames" :> <<[name |-> "f", inApp |-> TRUE]>>)]

Record(s) == [kind |-> "record", service |-> s]

First == <<[type |-> "event", payload |-> <<Event(e1, "a", "m")>>],
           [type |-> "log", payload |-> <<Record(s1), Newline, Record(s2)>>]>>
Second == <<[type |-> "log", payload |-> <<Record(s2), Record(s1), Record(s2)>>],
            [type |-> "event", payload |-> <<Event(e2, "b", "m")>>],
            [type |-> "event", payload |-> <<Event(e2, "b", "empty")>>]>>

MCSent == (r1 :> First) @@ (r2 :> Second) @@ (r3 :> First)

\* How an SDK writes an item: with its length, or on a line of its own.
Write(item, sized) ==
    <<Header(item.type, IF sized THEN Len(item.payload) ELSE Unsized), Newline>>
        \o item.payload
OneLine(item) == \A i \in 1..Len(item.payload) : item.payload[i] # Newline

\* The whole body, the newline at its end left out or not.
Wire(sent, sized, last) ==
    LET Rest[i \in 1..(Len(sent) + 1)] ==
            IF i > Len(sent) THEN <<>>
            ELSE Write(sent[i], sized \/ ~OneLine(sent[i]))
                 \o (IF i < Len(sent) \/ last THEN <<Newline>> ELSE <<>>) \o Rest[i + 1]
    IN  <<Start, Newline>> \o Rest[1]

\* Its last item is shorter than its header says.
CutOff(body) == SubSeq(body, 1, Len(body) - 1)

MCBodies == [r \in Requests |-> {Wire(MCSent[r], sized, last) : sized, last \in BOOLEAN}]
MCCut == [r \in Requests |-> {CutOff(Wire(MCSent[r], TRUE, FALSE))}]
OneHeader == [r \in Requests |-> h1]

Nothing == [r \in Requests |-> <<>>]
Unsent == [r \in Requests |-> {}]
\* One of them has its key in the query.
SomeHeader == [r \in Requests |-> IF r = r1 THEN None ELSE h1]

Interchangeable == Permutations(Requests \ {r1})
=============================================================================
