---------------------------- MODULE RequestCapture ----------------------------
(***************************************************************************)
(* A reference's egress request (internal/httpserver: serveReference and   *)
(* the capture of the body): the transport reads the upload through a tee, *)
(* and the engine's hashing goroutine waits for the body that the tee      *)
(* captured.  The transport may read and close the upload from several     *)
(* goroutines, before and after it has returned a response.                *)
(*                                                                         *)
(* One action is one critical section of c.mu with the local steps around  *)
(* it; reading or closing the source and telling the sink are separate     *)
(* actions.                                                                *)
(***************************************************************************)
EXTENDS Integers

CONSTANTS
    CaptureLimit,  \* c.limit
    UploadBytes    \* bound: bytes of the upload

ASSUME CaptureAssumption == CaptureLimit \in Nat /\ UploadBytes \in Nat

VARIABLES
    served,    \* what serveReference made of the request
    configured,  \* whether a destination is configured for its host
    upload,    \* the source: how it ended, or "open"
    bytes,     \* bytes read from it
    eof,       \* b.eof
    tee,       \* the goroutine in teeBody.Read: what it has still to tell the sink
    close,     \* the goroutine in teeBody.Close
    body,      \* length of c.body
    overflow,  \* c.overflow
    captured,  \* c.captured
    hashing    \* what the hashing goroutine's wait returned

captureVars == <<body, overflow, captured>>
requestVars == <<served, configured, upload, bytes, eof, tee, close, captureVars, hashing>>

Errors == {"none", "EOF", "broken"}

NoBody == [body |-> 0, overflow |-> FALSE, err |-> "none"]

CaptureInit ==
    /\ served = "new"
    /\ configured \in BOOLEAN
    /\ upload = "open"
    /\ bytes = 0
    /\ eof = FALSE
    /\ tee = [data |-> 0, err |-> "none"]
    /\ close = "none"
    /\ body = 0
    /\ overflow = FALSE
    /\ captured = NoBody
    /\ hashing = NoBody

\* teeBody.Read between two calls, and after an error.
Idle == [data |-> 0, err |-> "none"]
Ended == [data |-> 0, err |-> "ended"]

\* captured is set: future.Future.Get.
Closed == captured.err # "none"

-----------------------------------------------------------------------------
(* The sink.                                                               *)

\* Mutant: a body of exactly the limit counts as too long.
AppendToLimit(n) ==
    \/ Closed /\ UNCHANGED captureVars
    \/ /\ ~Closed
       /\ body' = IF n > CaptureLimit - body THEN CaptureLimit ELSE body + n
       /\ overflow' = (overflow \/ n >= CaptureLimit - body)
       /\ UNCHANGED captured

\* append keeps the first c.limit bytes until the body is captured.
append(n) ==
    \/ Closed /\ UNCHANGED captureVars
    \/ /\ ~Closed
       /\ body' = IF n > CaptureLimit - body THEN CaptureLimit ELSE body + n
       /\ overflow' = (overflow \/ n > CaptureLimit - body)
       /\ UNCHANGED captured

\* closeWriter captures the body; only the first call sets the future.
closeCapture(err) ==
    /\ captured' = IF Closed THEN captured ELSE [body |-> body, overflow |-> overflow, err |-> err]
    /\ UNCHANGED <<body, overflow>>

-----------------------------------------------------------------------------
(* The handler.                                                            *)

\* serveReference refuses the request at capacity; a configured host always has an upstream.
Refuse ==
    /\ served = "new"
    /\ served' = "refused"
    /\ UNCHANGED <<configured, upload, bytes, eof, tee, close, captureVars, hashing>>

ServeNowhere ==
    /\ served = "new" /\ ~configured
    /\ served' = "nowhere"
    /\ closeCapture("broken")
    /\ UNCHANGED <<configured, upload, bytes, eof, tee, close, hashing>>

\* The reverse proxy drops an empty body without closing it.
ServeEmpty ==
    /\ served = "new"
    /\ served' = "empty"
    /\ closeCapture("EOF")
    /\ upload' = "EOF"
    /\ UNCHANGED <<configured, bytes, eof, tee, close, hashing>>

ServeBody ==
    /\ served = "new"
    /\ served' = "streamed"
    /\ UNCHANGED <<configured, upload, bytes, eof, tee, close, captureVars, hashing>>

-----------------------------------------------------------------------------
(* The tee.                                                                *)

\* Read gets n bytes from the source, perhaps with its end.
ReadData(n) ==
    /\ served = "streamed" /\ tee = Idle /\ upload = "open"
    /\ bytes + n <= UploadBytes
    /\ bytes' = bytes + n
    /\ \E err \in Errors :
          /\ tee' = [data |-> n, err |-> err]
          /\ upload' = IF err = "none" THEN upload ELSE err
    /\ UNCHANGED <<served, configured, eof, close, captureVars, hashing>>

\* Read gets the end alone.  A closed source gives an error.
ReadEnd ==
    /\ served = "streamed" /\ tee = Idle
    /\ \/ /\ upload = "open"
          /\ \E err \in {"EOF", "broken"} : tee' = [data |-> 0, err |-> err] /\ upload' = err
       \/ /\ upload = "closed"
          /\ tee' = [data |-> 0, err |-> "broken"]
          /\ UNCHANGED upload
    /\ UNCHANGED <<served, configured, bytes, eof, close, captureVars, hashing>>

\* Read passes the data to the sink.
AppendData ==
    /\ tee.data > 0
    /\ append(tee.data)
    /\ tee' = [tee EXCEPT !.data = 0]
    /\ UNCHANGED <<served, configured, upload, bytes, eof, close, hashing>>

\* Read stores b.eof before it tells the sink.
StoreEOF ==
    /\ tee = [data |-> 0, err |-> "EOF"] /\ ~eof
    /\ eof' = TRUE
    /\ UNCHANGED <<served, configured, upload, bytes, tee, close, captureVars, hashing>>

\* Read tells the sink and returns; no further Read follows an error.
TeeEnds ==
    /\ tee.data = 0
    /\ tee.err = "broken" \/ (tee.err = "EOF" /\ eof)
    /\ closeCapture(tee.err)
    /\ tee' = Ended
    /\ UNCHANGED <<served, configured, upload, bytes, eof, close, hashing>>

\* Close closes the source.
CloseSource ==
    /\ served = "streamed" /\ close = "none"
    /\ close' = "closing"
    /\ upload' = IF upload = "open" THEN "closed" ELSE upload
    /\ UNCHANGED <<served, configured, bytes, eof, tee, captureVars, hashing>>

\* Mutant: Close leaves an unfinished body open.
CloseSourceOnly ==
    /\ close = "closing"
    /\ close' = "closed"
    /\ UNCHANGED <<served, configured, upload, bytes, eof, tee, captureVars, hashing>>

\* Then it looks at b.eof and ends the sink as incomplete.
CloseSink ==
    /\ close = "closing"
    /\ close' = "closed"
    /\ IF eof THEN UNCHANGED captureVars ELSE closeCapture("broken")
    /\ UNCHANGED <<served, configured, upload, bytes, eof, tee, hashing>>

-----------------------------------------------------------------------------
\* The payload function in the hashing goroutine: wait returns the captured body, unless
\* the host has no destination.
Wait ==
    /\ served \notin {"new", "refused"} /\ hashing = NoBody
    /\ IF configured THEN Closed /\ hashing' = captured ELSE hashing' = [NoBody EXCEPT !.err = "broken"]
    /\ UNCHANGED <<served, configured, upload, bytes, eof, tee, close, captureVars>>

\* The payload of a candidate's request of n bytes: it reads one byte more than the limit.
candidateBody(n) ==
    [body |-> IF n > CaptureLimit THEN CaptureLimit ELSE n, overflow |-> n > CaptureLimit]

\* The request was refused, or its body and its hashing are finished.
CaptureQuiescent ==
    /\ \/ served = "refused"
       \/ served \in {"nowhere", "empty"} /\ hashing # NoBody
       \/ close = "closed" /\ tee \in {Idle, Ended} /\ hashing # NoBody
    /\ UNCHANGED requestVars

CaptureNext ==
    \/ Refuse \/ ServeNowhere \/ ServeEmpty \/ ServeBody
    \/ \E n \in 1 .. UploadBytes : ReadData(n)
    \/ ReadEnd \/ AppendData \/ StoreEOF \/ TeeEnds
    \/ CloseSource \/ CloseSink
    \/ Wait
    \/ CaptureQuiescent

CaptureSpec == CaptureInit /\ [][CaptureNext]_requestVars

\* The transport always closes a request body that it is given; goroutines run when they can.
CaptureFairness ==
    /\ WF_requestVars(CloseSource) /\ WF_requestVars(CloseSink)
    /\ WF_requestVars(AppendData \/ StoreEOF \/ TeeEnds) /\ WF_requestVars(Wait)

CaptureFairSpec == CaptureSpec /\ CaptureFairness

-----------------------------------------------------------------------------
(* Properties.                                                             *)

Captures == [body : 0 .. CaptureLimit, overflow : BOOLEAN, err : Errors]

\* The fields of the tee and the capture hold values of their types.
CaptureTypeOK ==
    /\ served \in {"new", "refused", "nowhere", "empty", "streamed"}
    /\ configured \in BOOLEAN
    /\ upload \in {"open", "EOF", "broken", "closed"}
    /\ bytes \in 0 .. UploadBytes
    /\ eof \in BOOLEAN
    /\ tee \in [data : 0 .. UploadBytes, err : Errors \cup {"ended"}]
    /\ close \in {"none", "closing", "closed"}
    /\ body \in 0 .. CaptureLimit
    /\ overflow \in BOOLEAN
    /\ captured \in Captures
    /\ hashing \in Captures

\* The body that the engine hashes without an error is the whole upload: all of it, or
\* its first Limit bytes marked as an overflow, whatever the transport closes meanwhile.
\* So a candidate that sends the same bytes is identified by the same body.
HashesWholeBody ==
    /\ CaptureTypeOK
    /\ hashing.err = "EOF" =>
          /\ upload = "EOF" /\ configured
          /\ [body |-> hashing.body, overflow |-> hashing.overflow] = candidateBody(bytes)

\* Every request that is not refused gets an answer from its hashing, whether it has a
\* destination or a body, and however the transport ends the upload.
HashingEnds == served \notin {"new", "refused"} ~> hashing # NoBody

=============================================================================
