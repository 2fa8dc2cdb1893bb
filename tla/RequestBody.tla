----------------------------- MODULE RequestBody -----------------------------
(***************************************************************************)
(* RequestBodyLimitMiddleware (app/request_limits.py): a body is read to    *)
(* its end into a spool before the application runs, and replayed to it in  *)
(* chunks; after that the application reads from the client again.          *)
(***************************************************************************)
EXTENDS Integers

CONSTANTS
    BodyLimit,      \* max_request_bytes, or max_upload_bytes for an upload
    ReplayChunk,    \* _REPLAY_CHUNK_BYTES
    Declared,       \* lengths a client may declare; NoLength and BadLength are two more
    Pieces          \* sizes of the messages it may send

NoLength == -1
BadLength == -2

ASSUME BodyAssumption ==
    /\ BodyLimit \in Nat /\ ReplayChunk \in Nat \ {0}
    /\ Declared \subseteq Nat /\ Pieces \subseteq Nat

VARIABLES
    body,       \* the request: "sent", "reading", "refused", "gone", "replaying", "live"
    declared,   \* its Content-Length
    total,      \* bytes spooled
    given       \* bytes replayed

bodyVars == <<body, declared, total, given>>

Open ==
    /\ body = "sent"
    /\ body' = IF declared = BadLength \/ declared > BodyLimit THEN "refused" ELSE "reading"
    /\ UNCHANGED <<declared, total, given>>

(* One http.request message; the last one has no more_body.  The length a    *)
(* client declared is not held against what it sends.                        *)
Receive ==
    /\ body = "reading"
    /\ \E size \in Pieces, more \in BOOLEAN :
         IF total + size > BodyLimit
         THEN body' = "refused" /\ UNCHANGED total
         ELSE /\ total' = total + size
              /\ body' = IF more THEN "reading" ELSE "replaying"
    /\ UNCHANGED <<declared, given>>

HangUp ==
    /\ body = "reading"
    /\ body' = "gone"
    /\ UNCHANGED <<declared, total, given>>

(* Fault: a full last chunk does not count as the last.                      *)
CompleteWhenPast(read) == read > total

(* replay_complete, after a read that left the spool at this position.       *)
Complete(read) == read >= total

(* replay_receive.                                                           *)
Replay ==
    /\ body = "replaying"
    /\ LET read == IF given + ReplayChunk < total THEN given + ReplayChunk ELSE total
       IN  /\ given' = read
           /\ body' = IF Complete(read) THEN "live" ELSE "replaying"
    /\ UNCHANGED <<declared, total>>

BodyInit ==
    /\ body = "sent"
    /\ declared \in Declared \cup {NoLength, BadLength}
    /\ total = 0 /\ given = 0

BodyNext == Open \/ Receive \/ HangUp \/ Replay

BodySpec == BodyInit /\ [][BodyNext]_bodyVars

-----------------------------------------------------------------------------
(* The application never starts on a body over the limit, whatever length    *)
(* the client declared, and it is told that the body ends exactly when it    *)
(* has been given all of it, also when the last chunk is a full one or the   *)
(* body is empty.                                                            *)
ReplayedWhole ==
    body \in {"replaying", "live"} =>
      /\ total <= BodyLimit
      /\ given <= total
      /\ body = "replaying" /\ total > 0 => given < total
      /\ body = "live" => given = total
=============================================================================
