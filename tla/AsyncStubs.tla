----------------------------- MODULE AsyncStubs -----------------------------
(***************************************************************************)
(* The async stubs (include/grpcpp/support/async_stream.h and              *)
(* async_unary_call.h) on a completion queue: every operation brings its   *)
(* tag back with ok = false, and Finish deposits UNIMPLEMENTED in the      *)
(* application's Status before its tag goes out with ok = true.            *)
(*                                                                         *)
(* The application starts the operations of one stub from several threads, *)
(* each operation with a tag of its own, and Finish once.                  *)
(***************************************************************************)
EXTENDS CompletionQueue

VARIABLES
  stub,        \* the kind of stub
  failed,      \* tags of the operations that failed
  finishing,   \* the tag of a Finish that has not enqueued it, as a set
  finished,    \* the tag of Finish, as a set
  deposited    \* the Status of Finish has been written

stub_vars == <<stub, failed, finishing, finished, deposited>>
async_vars == <<queue_vars, stub_vars>>

(* The operations with a tag, besides Finish.  A stub's StartCall() with a *)
(* tag is made by the factory (Async...) or by the application             *)
(* (PrepareAsync...); the one of a response reader takes no tag.           *)
ReaderOperations == {"StartCall", "ReadInitialMetadata", "Read"}
WriterOperations == {"StartCall", "ReadInitialMetadata", "Write", "WriteLast", "WritesDone"}
ReaderWriterOperations == ReaderOperations \cup WriterOperations
ResponseReaderOperations == {"ReadInitialMetadata"}
TaggedOperations ==
  [reader |-> ReaderOperations, writer |-> WriterOperations,
   reader_writer |-> ReaderWriterOperations,
   response_reader |-> ResponseReaderOperations]

AsyncInit ==
  /\ QueueInit
  /\ stub \in DOMAIN TaggedOperations
  /\ failed = {} /\ finishing = {} /\ finished = {} /\ deposited = FALSE

Used == Members(enqueued) \cup finishing

(* EnqueueFailedOp. *)
EnqueueFailedOp(tag) ==
  /\ tag \notin Used /\ TaggedOperations[stub] # {}
  /\ EgrpcEnqueueTag(tag)
  /\ failed' = failed \cup {tag}
  /\ UNCHANGED <<stub, finishing, finished, deposited>>

(* Variant: the tag goes out first. *)
EnqueueFinishTagFirst(tag) ==
  \/ /\ finished = {} /\ finishing = {} /\ tag \notin Used
     /\ EgrpcEnqueueTag(tag) /\ finished' = {tag}
     /\ UNCHANGED <<stub, failed, finishing, deposited>>
  \/ /\ finished = {tag} /\ ~deposited /\ deposited' = TRUE
     /\ UNCHANGED <<queue_vars, stub, failed, finishing, finished>>

(* EnqueueFinish: the status, then the tag. *)
EnqueueFinish(tag) ==
  \/ /\ finished = {} /\ finishing = {} /\ tag \notin Used
     /\ deposited' = TRUE /\ finishing' = {tag}
     /\ UNCHANGED <<queue_vars, stub, failed, finished>>
  \/ /\ finishing = {tag}
     /\ EgrpcEnqueueTag(tag) /\ finishing' = {} /\ finished' = {tag}
     /\ UNCHANGED <<stub, failed, deposited>>

StubNext ==
  \/ \E tag \in Tags : EnqueueFailedOp(tag) \/ EnqueueFinish(tag)
  \/ /\ (\E t \in Waiters : NextTag(t)) \/ AsyncNext \/ Shutdown
     /\ UNCHANGED stub_vars

AsyncSpec == AsyncInit /\ [][StubNext]_async_vars

----------------------------------------------------------------------------

(* The event a thread gets for Finish tells it to read the Status: it was  *)
(* written before.  Every other event says that its operation failed.      *)
StatusBeforeTag ==
  /\ finished \cap Members(got) # {} => deposited
  /\ Members(got) \ finished \subseteq failed
=============================================================================
