--------------------------- MODULE MessageFormats ---------------------------
(***************************************************************************)
(* What becomes of a message when it is published to a service, received,  *)
(* returned by a handler function that so forwards it to the next one, and *)
(* so on, over up to MaxHops services.                                     *)
(*                                                                         *)
(* A payload is text or other bytes, inside of some layers of canonical    *)
(* base64.  Metadata are a set of keys: "plain" stands for any but the     *)
(* FIFO ids of SQS and SNS and the attribute or header that holds the UUID *)
(* ("reserved": _natricine_message_uuid on AWS and Kafka by default), the  *)
(* value of which is a UUID ("other") or not ("text").  "trace" is what the *)
(* publishers of OpenTelemetry add, when there is a span to tell of;       *)
(* "alias" is an attribute or a header in which somebody else keeps the    *)
(* UUID.                                                                   *)
(***************************************************************************)
EXTENDS Integers, Sequences, SequencesExt

CONSTANTS
    MaxLayers,
    MaxHops

Services == {"sqs", "sns", "kafka", "redis", "sql", "http", "memory"}
Aws == {"sqs", "sns"}
Keys == {"plain", "fifo", "reserved", "trace", "alias"}

\* A message comes with a UUID of its "own", or its sender gave it none, or keeps it under
\* another name than the subscriber is configured for.
NoUuid == {"absent", "renamed"}

VARIABLES
    sent,           \* the message as its sender made it
    value,          \* what the metadata have under the reserved key
    got,            \* the message as it was received last
    path,           \* the services it went over
    broken          \* the last subscriber could not read it: UUID() raised ValueError, and
                    \* the message was not yielded

vars == <<sent, value, got, path, broken>>

Payloads == [core : {"text", "bytes"}, layers : 0..MaxLayers]

Init ==
    /\ sent \in [payload : Payloads, keys : SUBSET (Keys \ {"trace", "alias"}),
                 uuid : {"own"} \cup NoUuid]
    /\ value \in {"other", "text"}
    /\ got = sent /\ path = <<>> /\ broken = FALSE

-----------------------------------------------------------------------------
(* Payloads: encode_message_body() sends UTF-8 as it is and anything else  *)
(* in base64; decode_message_body() takes whatever is canonical base64     *)
(* for that.  Bodies are text, all other services carry bytes.             *)

IsUtf8(p) == p.core = "text" \/ p.layers > 0

Encode(p) == IF IsUtf8(p) THEN p ELSE [p EXCEPT !.layers = @ + 1]

Decode(body) == IF body.layers > 0 THEN [body EXCEPT !.layers = @ - 1] ELSE body

-----------------------------------------------------------------------------
(* The UUID is written as a string, None as "None".  Where metadata and    *)
(* UUID are attributes or headers of one table, a reserved key in the      *)
(* metadata, written later, wins, and whatever else there is in the table  *)
(* is taken for metadata, the UUID under another name as well.  Redis and  *)
(* HTTP have metadata in one field, and do not look at others.             *)

OneTable(s) == s \in Aws \cup {"kafka"}

Overridden(s, keys) == OneTable(s) /\ "reserved" \in keys

UuidString(s, m) == IF Overridden(s, m.keys) THEN value ELSE m.uuid

\* UUID() of what is not one raises, before the message is yielded: over HTTP in the handler
\* of the request, so that its poster is told of an error and the iteration goes on; in all
\* other subscribers in the iteration, which it ends.  (SQLite never gives such a row again,
\* it has been claimed by then.)  Kafka's headers are a list, and the subscriber parses the
\* one that is overridden, too.
Raises(s, m) ==
    \/ UuidString(s, m) \in {"text", "None"}
    \/ s = "kafka" /\ m.uuid = "None"

\* mutant: every subscriber leaves None
LeftNone(s, string) == IF string \in NoUuid THEN "None" ELSE string

\* No UUID: a Redis subscriber leaves None, all others make one up at every delivery.
UuidFrom(s, string) ==
    IF string \notin NoUuid THEN string ELSE IF s = "redis" THEN "None" ELSE "new"

\* The FIFO ids become parameters of the call to AWS, and nothing restores them.
KeysFrom(s, m) ==
    ((m.keys \ (IF s \in Aws THEN {"fifo"} ELSE {}))
       \ (IF Overridden(s, m.keys) THEN {"reserved"} ELSE {}))
      \cup (IF OneTable(s) /\ m.uuid = "renamed" THEN {"alias"} ELSE {})

\* The in-memory bus hands over a copy.
Received(s, m) ==
    IF s = "memory" THEN m
    ELSE [payload |-> IF s \in Aws THEN Decode(Encode(m.payload)) ELSE m.payload,
          keys |-> KeysFrom(s, m),
          uuid |-> UuidFrom(s, UuidString(s, m))]

\* inject_context() makes a new message of the old one and what it adds.
Injected(m) == [m EXCEPT !.keys = @ \cup {"trace"}]

\* Publish m to s and receive it from there.  Publishers of natricine write a UUID, so only a
\* message of somebody else, at its first service, has none; the table of SQL has its columns.
Hop(s, m) ==
    /\ ~broken /\ Len(path) < MaxHops
    /\ s = "memory" => m.uuid \notin NoUuid
    /\ s = "sql" => m.uuid # "renamed"
    /\ path' = Append(path, s)
    /\ broken' = (s # "memory" /\ Raises(s, m))
    /\ got' = IF broken' THEN got ELSE Received(s, m)
    /\ UNCHANGED <<sent, value>>

Next == \E s \in Services : Hop(s, got) \/ Hop(s, Injected(got))

Spec == Init /\ [][Next]_vars

-----------------------------------------------------------------------------
\* The type of the state.
TypeOK ==
    /\ sent.payload \in Payloads /\ sent.keys \subseteq Keys
    /\ got.payload \in Payloads /\ got.keys \subseteq Keys
    /\ got.uuid \in {"own", "other", "new", "None"} \cup NoUuid
    /\ path \in Seq(Services) /\ Len(path) <= MaxHops /\ broken \in BOOLEAN

Over(ss) == ToSet(path) \cap ss # {}

\* A UUID under another name came to Kafka or AWS, where it is one more of the metadata.
Renamed == sent.uuid = "renamed" /\ OneTable(path[1])

\* A message arrives as it was sent, however it was routed, but for these: a payload that is
\* itself canonical base64 loses a layer on its way over AWS (bytes which are not text do not),
\* the FIFO ids end there, a reserved key in the metadata is taken for the UUID over AWS and
\* Kafka, a message without a UUID gets one, and what held it for its sender is found among
\* the metadata.  It is unreadable only if a reserved key held no UUID, or if it had none and
\* came from Redis to be forwarded.
ArrivesAsSent ==
    path # <<>> =>
      LET reserved == "reserved" \in sent.keys /\ Over(Aws \cup {"kafka"}) IN
      /\ got.payload = sent.payload \/ (sent.payload.layers > 0 /\ Over(Aws))
      /\ \A k \in sent.keys \ got.keys : (k = "fifo" /\ Over(Aws)) \/ (k = "reserved" /\ reserved)
      /\ got.keys \subseteq sent.keys \cup {"trace"} \cup (IF Renamed THEN {"alias"} ELSE {})
      /\ got.uuid = sent.uuid \/ reserved \/ sent.uuid \in NoUuid
      /\ broken => \/ (reserved /\ value = "text")
                   \/ (sent.uuid \in NoUuid /\ path[1] = "redis" /\ Len(path) > 1)
=============================================================================
