--------------------------- MODULE EnvelopeFormat ---------------------------
(***************************************************************************)
(* The bytes of a Sentry envelope and the items read from them             *)
(* (src/envelope.rs), and what is made of the JSON in an item: the event,  *)
(* its fields without the secrets, and its fingerprint (src/api.rs).       *)
(*                                                                         *)
(* A body is a sequence of symbols.  A symbol is a newline, or one piece   *)
(* of JSON without newlines: the header of the envelope or of an item, an  *)
(* event, a record of a log batch, or something else.  Lengths count       *)
(* symbols.  JSON ignores newlines between its pieces.                     *)
(*                                                                         *)
(* The names of an event's fields are in lower case, as both sides of the  *)
(* comparison are in the code.                                             *)
(***************************************************************************)
EXTENDS Integers, Sequences

CONSTANTS
    Unsized,        \* an item header without a length
    MaxItems,       \* 100 in the code
    MaxBytes,       \* 1 MiB in the code, for an event
    Services        \* that a log record can name

ASSUME FormatAssumption ==
    MaxItems \in Nat /\ MaxBytes \in Nat /\ Unsized \notin Nat

Newline == [kind |-> "newline"]
Start == [kind |-> "envelope"]
Header(type, length) == [kind |-> "header", type |-> type, length |-> length]

-----------------------------------------------------------------------------
(* parse. *)

\* Mutant of Line: the last line needs its newline.
LineWithNewline(s, c) ==
    LET ends == {i \in c..Len(s) : s[i] = Newline} IN
    IF ends = {} THEN [text |-> <<>>, next |-> Len(s) + 1]
    ELSE LET end == CHOOSE i \in ends : \A j \in ends : i <= j
         IN [text |-> SubSeq(s, c, end - 1), next |-> end + 1]

\* line: what is between c and the next newline.  The last line may do without.
Line(s, c) ==
    LET ends == {i \in c..Len(s) : s[i] = Newline} IN
    IF ends = {} THEN [text |-> SubSeq(s, c, Len(s)), next |-> Len(s) + 1]
    ELSE LET end == CHOOSE i \in ends : \A j \in ends : i <= j
         IN [text |-> SubSeq(s, c, end - 1), next |-> end + 1]

\* A payload whose length is known, with the newline that may follow it.
Sized(s, c, length) ==
    LET end == c + length IN
    [text |-> SubSeq(s, c, end - 1),
     next |-> IF end <= Len(s) /\ s[end] = Newline THEN end + 1 ELSE end]

Payload(s, c, header) ==
    IF header.length = Unsized THEN Line(s, c) ELSE Sized(s, c, header.length)

Truncated(s, c, header) == header.length # Unsized /\ c + header.length > Len(s) + 1
TooLarge(header, payload) == header.type = "event" /\ Len(payload.text) > MaxBytes

Broken == [ok |-> FALSE, items |-> <<>>]

\* A round of the loop at c, when n items have been read, where rest[d][m] is
\* what the rounds from d on make of the others.  Transactions are read as
\* events.
ReadFrom(s, rest, c, n) ==
    IF c > Len(s) THEN [ok |-> TRUE, items |-> <<>>]
    ELSE IF s[c] = Newline THEN rest[c + 1][n]
    ELSE LET header == Line(s, c) IN
         IF \/ n = MaxItems
            \/ Len(header.text) # 1 \/ s[c].kind # "header"
            \/ Truncated(s, header.next, s[c])
         THEN Broken
         ELSE LET payload == Payload(s, header.next, s[c]) IN
              IF TooLarge(s[c], payload) THEN Broken
              ELSE LET others == rest[payload.next][n + 1] IN
                   IF ~others.ok THEN Broken
                   ELSE [ok |-> TRUE,
                         items |-> <<[type |-> s[c].type, payload |-> payload.text]>>
                                       \o others.items]

\* The items from each place on.
ItemsFrom(s) ==
    LET From[c \in 1..(Len(s) + 1)] == [n \in 0..MaxItems |-> ReadFrom(s, From, c, n)]
    IN  From

Parse(s) ==
    IF Line(s, 1).text # <<Start>> THEN Broken ELSE ItemsFrom(s)[Line(s, 1).next][0]

-----------------------------------------------------------------------------
(* What a client writes, stated without the parser: where the items lie.   *)

IsSequence(s) == s \in Seq({s[i] : i \in DOMAIN s})

\* A body, whose headers state a length that is a number, if they state one.
IsBody(s) ==
    /\ IsSequence(s)
    /\ \A c \in 1..Len(s) : s[c].kind = "header" => s[c].length \in Nat \cup {Unsized}

\* The place after an item whose header is at h.
After(h, item) == h + 2 + Len(item.payload)

\* At h is the header of the item, on a line of its own, and then its payload.
\* If the header does not state the length, the payload is a line of its own too.
Framed(s, h, item) ==
    LET end == After(h, item) IN
    /\ end <= Len(s) + 1
    /\ s[h + 1] = Newline
    /\ item = [type |-> item.type, payload |-> SubSeq(s, h + 2, end - 1)]
    /\ item.type = "event" => Len(item.payload) <= MaxBytes
    /\ \/ s[h] = Header(item.type, Len(item.payload))
       \/ /\ s[h] = Header(item.type, Unsized)
          /\ \A c \in (h + 2)..(end - 1) : s[c] # Newline
          /\ end = Len(s) + 1 \/ s[end] = Newline

\* The body begins with its own header; the first k items of sent are at
\* pos[1], ..., pos[k]; and up to pos[k + 1] there is nothing else but newlines.
Laid(s, sent, k, pos) ==
    /\ IsBody(s) /\ Len(s) >= 2
    /\ s[1] = Start /\ s[2] = Newline
    /\ \A i \in 1..k : Framed(s, pos[i], sent[i])
    /\ \A i \in 0..k :
          LET end == IF i = 0 THEN 3 ELSE After(pos[i], sent[i]) IN
          /\ end <= pos[i + 1]
          /\ \A c \in end..(pos[i + 1] - 1) : s[c] = Newline

Places(s, k) == [1..(k + 1) -> 3..(Len(s) + 1)]

\* As many items as may be sent at once.
IsSent(sent) ==
    /\ IsSequence(sent) /\ Len(sent) <= MaxItems
    /\ \A i \in 1..Len(sent) : IsSequence(sent[i].payload)

\* All of the items sent are in the body.
Written(s, sent) ==
    /\ IsSent(sent)
    /\ \E pos \in Places(s, Len(sent)) :
          Laid(s, sent, Len(sent), pos) /\ pos[Len(sent) + 1] = Len(s) + 1

\* The body ends within an item, before the length that its header states.
Cut(s, sent) ==
    /\ IsSent(sent)
    /\ \E k \in 0..(Len(sent) - 1) : \E pos \in Places(s, k) :
          LET h == pos[k + 1] IN
          /\ Laid(s, sent, k, pos)
          /\ h < Len(s) /\ s[h + 1] = Newline
          /\ s[h] = Header(sent[k + 1].type, Len(sent[k + 1].payload))
          /\ After(h, sent[k + 1]) > Len(s) + 1

-----------------------------------------------------------------------------
(* Events and log records. *)

Json(payload) == SelectSeq(payload, LAMBDA x : x # Newline)

\* event_from_payload, and the check of the message in persist_event.  An event
\* without a message of its own gets one, so that only an empty one is refused.
IsEvent(payload) ==
    /\ Len(Json(payload)) = 1
    /\ Json(payload)[1].kind = "event"
    /\ Json(payload)[1].message # "empty"

\* The JSON of a log batch, of one record at least.
IsBatch(payload) ==
    Json(payload) \in Seq([kind : {"record"}, service : Services]) \ {<<>>}

\* scrub_sensitive_with: the fields named in F lose their values.
Scrub(e, F) ==
    [id |-> e.id, message |-> e.message, custom |-> e.custom, service |-> e.service,
     data |-> [k \in DOMAIN e.data \ F |-> e.data[k]],
     hidden |-> DOMAIN e.data \cap F]

Field(e, k, default) == IF k \in DOMAIN e.data THEN e.data[k] ELSE default

\* The frames of the exception that belong to the application, the last first,
\* and five of them.
Frames(e) ==
    LET own == SelectSeq(Field(e, "frames", <<>>), LAMBDA f : f.inApp)
        n == Len(own)
    IN  [i \in 1..(IF n < 5 THEN n ELSE 5) |-> own[n + 1 - i].name]

\* fingerprint: the custom one, with the default one in its place, or else
\* the type of the exception with its frames, or with the message.
Fingerprint(e) ==
    LET type == IF "type" \in e.hidden THEN "[Filtered]" ELSE Field(e, "type", "")
        default == IF Frames(e) = <<>> THEN <<"message", type, e.message>>
                   ELSE <<"frames", type, Frames(e)>>
    IN  IF e.custom = <<>> THEN <<default>>
        ELSE [i \in 1..Len(e.custom) |->
                 IF e.custom[i] = "default" THEN default ELSE <<e.custom[i]>>]

=============================================================================
