--------------------------- MODULE ChunkedTransfer ---------------------------
(***************************************************************************)
(* A client that follows the documented chunk protocol, as the one in      *)
(* tests/application_client does, talking to the application: the path in  *)
(* a first APDU of its own, then the data in pieces, the last one marked.  *)
(* Exchanges are synchronous and an error ends the job.                    *)
(*                                                                         *)
(* Between two exchanges other programs may send their own commands, as    *)
(* long as these are not chunked, and the application may be restarted     *)
(* without the client noticing.                                            *)
(***************************************************************************)
EXTENDS AppSession, SequencesExt

CONSTANTS
  Job,       \* what clients want signed: [ins, path, chunks]
  Bystander  \* headers of the commands other programs send in between

ASSUME TransferAssumption ==
  /\ \A j \in Job : /\ j.ins \in Chunked
                    /\ j.path \in Path
                    /\ j.chunks \in Seq(Seq(Symbol)) \ {<< >>}
  /\ Bystander \subseteq Header
  /\ \A h \in Bystander : h.ins \notin Chunked

VARIABLES
  pc,      \* "idle", "sending", "waiting", "done" or "failed"
  job,     \* the job under way, or the last one
  next,    \* number of data pieces already sent
  result   \* what the job ended with

clientVars == <<pc, job, next, result>>
allVars == <<vars, clientVars>>

NoResult == "none"

TransferInit ==
  /\ Init
  /\ pc = "idle"
  /\ job \in Job
  /\ next = 0
  /\ result = NoResult

StartJob(j) ==
  /\ pc \in {"idle", "done", "failed"}
  /\ pc' = "sending"
  /\ job' = j
  /\ next' = 0
  /\ result' = NoResult
  /\ UNCHANGED vars

\* The APDU of step k of a job: the path, then each piece.
HeaderOf(j, k) ==
  [ins |-> j.ins,
   p1  |-> IF k = 0 THEN P1_FIRST_APDU ELSE P1_MORE_APDU,
   p2  |-> IF k = Len(j.chunks) THEN P2_LAST_APDU ELSE P2_MORE_APDU]
DataOf(j, k) == IF k = 0 THEN <<j.path>> ELSE j.chunks[k]

Send ==
  /\ pc = "sending"
  /\ SignChunk(HeaderOf(job, next), DataOf(job, next))
  /\ pc' = "waiting"
  /\ UNCHANGED <<job, next, result>>

\* The answer of the exchange under way.
Receive ==
  /\ pc = "waiting" /\ reply.sent
  /\ UNCHANGED <<vars, job>>
  /\ \/ /\ reply.sw # "Ok"
        /\ pc' = "failed" /\ result' = reply.sw /\ UNCHANGED next
     \/ /\ reply.sw = "Ok" /\ next < Len(job.chunks)
        /\ pc' = "sending" /\ next' = next + 1 /\ UNCHANGED result
     \/ /\ reply.sw = "Ok" /\ next = Len(job.chunks)
        /\ pc' = "done" /\ result' = reply.rdata /\ UNCHANGED next

\* The application went away without answering: the transport reports it.
ConnectionLost ==
  /\ pc = "waiting" /\ phase = "next_command" /\ ~reply.sent
  /\ pc' = "failed"
  /\ result' = "ConnectionLost"
  /\ UNCHANGED <<vars, job, next>>

OtherProgram ==
  /\ pc # "waiting"
  /\ \E h \in Bystander :
       \/ RejectHeader(h)
       \/ GetConfiguration(h)
       \/ \E d \in Data : GetPublicKey(h, d) \/ SignHash(h, d)
  /\ UNCHANGED clientVars

Device == (User \/ Complete \/ Restart) /\ UNCHANGED clientVars

TransferNext ==
  \/ \E j \in Job : StartJob(j)
  \/ Send
  \/ Receive
  \/ ConnectionLost
  \/ OtherProgram
  \/ Device

\* The client runs, the user answers a review and leaves a status screen (which
\* also times out), and the handler's code after the review runs to its end.
TransferFairness ==
  /\ WF_allVars(Send) /\ WF_allVars(Receive) /\ WF_allVars(ConnectionLost)
  /\ WF_allVars((Approve \/ Reject) /\ UNCHANGED clientVars)
  /\ WF_allVars(Dismiss /\ UNCHANGED clientVars)
  /\ WF_allVars(Complete /\ UNCHANGED clientVars)

TransferSpec == TransferInit /\ [][TransferNext]_allVars /\ TransferFairness

-----------------------------------------------------------------------------
(* Properties. *)

TransferTypeOK ==
  /\ TypeOK
  /\ pc \in {"idle", "sending", "waiting", "done", "failed"}
  /\ job \in Job
  /\ next \in 0..Len(job.chunks)

\* A client that follows the protocol and is told its job succeeded holds the
\* signature of its whole message, by the key it named: not of a part of it
\* that a reset, a restart or a refused chunk left in the buffer, not of
\* anything a program in between put there, and never an empty answer.
DeliveredWhole ==
  pc = "done" =>
    result = Signature(Req(job.ins, job.path, FlattenSeq(job.chunks)))

\* While the application keeps the client's path, its buffer holds exactly
\* what the client has been told was received.
BufferIsAcknowledgedPrefix ==
  pc = "sending" /\ next > 0 =>
    \/ ctx.path = DefaultPath
    \/ /\ ctx.path = job.path
       /\ ctx.raw_data = FlattenSeq(SubSeq(job.chunks, 1, next - 1))

\* Every job ends, with a signature or with an error, although the application
\* may restart again and again.
EveryJobEnds == pc = "sending" ~> pc \in {"done", "failed"}
=============================================================================
