---------------------------- MODULE LocalServer ----------------------------
(***************************************************************************)
(* The server process: the standard input and output lifecycle with the    *)
(* tools its handlers run, the reads of MessageReads with their worker     *)
(* threads and stores, and the protocol calls of ProtocolCommands.  What   *)
(* the parts have to get right together is the end: a client cancels a     *)
(* request or closes the input, the tools unwind at whatever they await,   *)
(* their workers go on, the lifespan closes the spill store, and the       *)
(* process waits for its threads.                                          *)
(*                                                                         *)
(* A script says which frames the client sends and which events around the *)
(* server belong to it; the runs take a small set of scripts.              *)
(***************************************************************************)
EXTENDS StdioServer, MessageReads, ProtocolCommands

ASSUME ServerAssumption == Readers \subseteq Positions

vars == <<stdioVars, toolVars, protocolVars>>

Tool(i) == IF i \in DOMAIN Frames THEN Frames[i].kind ELSE "none"

ReadTools == {"content", "attachment", "transfer"}

Happens(event) == event \in script.events /\ main # "exited"

Init ==
  /\ StdioInit
  /\ ReadInit([c \in Readers |-> Tool(c)])
  /\ ProtocolInit(IF \E i \in Positions : Tool(i) = "protocol" THEN CommandLists ELSE {<<>>})

Running(i) == handler[i] \in {"running", "cancelling"}

(* Cancellation reaches a handler from its client or with the task group. *)
Cancelled(i) == handler[i] = "cancelling" \/ (main = "cancelled" /\ Running(i))

ToolOver(i) ==
  /\ Tool(i) \in ReadTools => read[i].pc = "over"
  /\ Tool(i) = "protocol" => ProtocolOver

WorkersOver == \A c \in Readers :
  job[c] \notin {"queued", "running"} /\ saving[c] \in {"none"} \cup SaveOver

-----------------------------------------------------------------------------
(* The transport, the handlers and the tools. *)

(* The event loop's runner joins the worker threads before the process ends. *)
Communicate ==
  /\ Transport
  /\ main' = "exited" => WorkersOver
  /\ UNCHANGED <<toolVars, protocolVars>>

EndHandler(i) ==
  /\ ToolOver(i)
  /\ Respond(i) \/ Unwind(i)
  /\ UNCHANGED <<toolVars, protocolVars>>

(* A response or a notice that nobody will write is dropped with its task. *)
DropMessage(i) ==
  /\ handler[i] = "answering"
  /\ Unwind(i)
  /\ UNCHANGED <<toolVars, protocolVars>>

ReadTool(i) ==
  /\ Running(i)
  /\ ReadStep(i) \/ (Cancelled(i) /\ CancelRead(i))
  /\ UNCHANGED <<stdioVars, protocolVars>>

Thread(i) == WorkerStep(i) /\ UNCHANGED <<stdioVars, protocolVars>>

(* Cancelling a protocol call interrupts what it awaits, which the call may *)
(* meet with anyway: a lost answer, a failed connection or invalidation.    *)
ProtocolTool(i) ==
  /\ Tool(i) = "protocol" /\ Running(i)
  /\ CallStep
  /\ UNCHANGED <<stdioVars, toolVars>>

(* close_application_runtime in the lifespan's finally. *)
CloseStore ==
  /\ session = "closing"
  /\ \/ ~closed /\ BeginClose
     \/ CloseStep
  /\ UNCHANGED <<stdioVars, readVars, fileVars, protocolVars>>

RuntimeClosed == ClosedDown /\ CloseRuntime /\ UNCHANGED <<toolVars, protocolVars>>

(* What the process does by itself. *)
ServerStep ==
  \/ Communicate
  \/ \E i \in Positions : EndHandler(i) \/ DropMessage(i) \/ ProtocolTool(i)
  \/ \E i \in Readers : ReadTool(i) \/ Thread(i)
  \/ CloseStore
  \/ RuntimeClosed

(* What the others do: the operator, other mail clients, programs and queries. *)
OutsideStep ==
  \/ /\ UNCHANGED <<stdioVars, protocolVars>>
     /\ \/ Happens("policy") /\ ChangePolicy
        \/ Happens("expunge") /\ \E u \in Uids : Expunge(u)
        \/ Happens("recreate") /\ Recreate
        \/ Happens("target") /\ TouchTarget /\ UNCHANGED <<readVars, spillVars>>
        \/ /\ Happens("meddle")
           /\ MeddleRoot \/ \E c \in Readers : Meddle(c)
           /\ UNCHANGED <<readVars, fileVars>>
  \/ /\ UNCHANGED <<stdioVars, toolVars>>
     /\ \/ Happens("authority") /\ ChangeAuthority
        \/ Happens("refill") /\ Refill
        \/ main # "exited" /\ (Serve \/ Break)

Next == ServerStep \/ OutsideStep

Spec == Init /\ [][Next]_vars

(* What happens without waiting for anything outside: the transport, the    *)
(* threads, the end of a handler, and a tool that has been cancelled.  What *)
(* a tool awaits from a server or a lock may take for ever.                 *)
PromptStep ==
  \/ Communicate
  \/ \E i \in Positions : EndHandler(i) \/ DropMessage(i)
  \/ \E i \in Readers : Thread(i) \/ (Cancelled(i) /\ ReadTool(i))
  \/ \E i \in Positions : Cancelled(i) /\ ProtocolTool(i)
  \/ CloseStore
  \/ RuntimeClosed

(* As long as some of these steps can be taken, one is: no fairness between *)
(* tasks is needed, as each of them is progress.                            *)
FairSpec == Spec /\ WF_vars(PromptStep)

-----------------------------------------------------------------------------
(* Properties. *)

(* Once the client has sent its last byte the process ends, whatever its   *)
(* tools were doing and whether or not its output is still read.           *)
ServerEnds == <>(main = "exited")
=============================================================================
