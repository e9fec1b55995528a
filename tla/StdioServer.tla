---------------------------- MODULE StdioServer ----------------------------
(***************************************************************************)
(* The standard input and output lifecycle of the server (stdio.py): a     *)
(* reader that cuts the input into newline-delimited frames of bounded     *)
(* size however the bytes arrive, the MCP session that runs one handler    *)
(* per request and sends a notice (notifications/message) for each frame   *)
(* that was rejected, a writer that puts whole messages on the output      *)
(* piece by piece, and the shutdown: after the end of the input the server *)
(* has a moment to finish, then everything is cancelled, and only when the *)
(* handlers have unwound does the session's lifespan close the runtime.    *)
(*                                                                         *)
(* Abstractions.  Byte i > 0 belongs to frame i of the script the client   *)
(* sends and 0 is the newline, so a frame's text says which frame it is    *)
(* and whether all of it is there.  The JSON in a frame is its kind.  Each *)
(* byte of a message says which frame the message is for.  What a handler  *)
(* does is left to the module that composes this one with the tools.       *)
(* Descriptors and their blocking mode are left out.                       *)
(***************************************************************************)
EXTENDS Integers, Sequences

CONSTANTS
  Scripts,        \* what a client may send: frames, and whether the last one ends in a newline
  FrameBytes,     \* mcp_stdio_frame_bytes
  ChunkBytes,     \* the most one read returns
  MessageBytes    \* bytes of a response or a notice

Positions == 1..3      \* a script has at most three frames; request i is frame i
Tools == {"ping", "content", "attachment", "transfer", "protocol"}

(* A frame is not empty, and a cancellation names a request. *)
ASSUME StdioAssumption ==
  /\ FrameBytes \in Nat \ {0} /\ ChunkBytes \in Nat \ {0} /\ MessageBytes \in Nat \ {0}
  /\ \A s \in Scripts :
       /\ s.frames \in Seq([kind : Tools \cup {"malformed", "cancel"}, size : Nat \ {0}, of : Nat])
       /\ Len(s.frames) <= 3
       /\ s.newline \in BOOLEAN
       /\ \A i \in DOMAIN s.frames : s.frames[i].kind = "cancel" => s.frames[i].of \in Positions

VARIABLES
  script,      \* what the client sends
  input,       \* bytes the reader has not read yet
  buffer,      \* _BoundedFrameReader._buffer
  discarding,  \* _BoundedFrameReader._discarding
  reader,      \* what the reader task waits for, and the item it is sending
  handed,      \* items the session has received, oldest first
  handler,     \* the session's task for each frame: its handler or its notice
  writer,      \* the message being written and the bytes of it that are left
  output,      \* bytes on the output
  main,        \* run_bounded_stdio_async
  session      \* _run_server and the lifespan

inbound == <<script, input, buffer, discarding, reader, handed>>
outbound == <<writer, output>>
stdioVars == <<inbound, handler, outbound, main, session>>

Rejected == 0          \* the ValueError sent in place of a frame that is not accepted
NoItem == -1

Frames == script.frames
IsRequest(i) == Frames[i].kind \in Tools

Text(i) == [n \in 1..Frames[i].size |-> i]

Ended(i) == i < Len(Frames) \/ script.newline

Line(i) == IF i > Len(Frames) THEN <<>> ELSE IF Ended(i) THEN Append(Text(i), 0) ELSE Text(i)

(* The bytes the client puts on the input. *)
Bytes == Line(1) \o Line(2) \o Line(3)

-----------------------------------------------------------------------------
(* Cutting frames. *)

Newline(b) == IF \E n \in DOMAIN b : b[n] = 0
              THEN CHOOSE n \in DOMAIN b : b[n] = 0 /\ \A m \in 1..(n - 1) : b[m] # 0
              ELSE 0

(* A frame becomes a message only when its text is a whole frame that parses. *)
Decode(text) ==
  LET whole == {i \in DOMAIN Frames : /\ Frames[i].kind # "malformed"
                                      /\ text \in {Text(i), Append(Text(i), 0)}}
  IN IF text = <<>> \/ Len(text) > FrameBytes \/ whole = {}
     THEN Rejected ELSE CHOOSE i \in whole : TRUE

(* One turn of the read loop on what the buffer holds. *)
Scan(b, dropping) ==
  LET n == Newline(b)
      rest == SubSeq(b, n + 1, Len(b))
  IN CASE dropping /\ n > 0 -> [buffer |-> rest, discarding |-> FALSE, item |-> Rejected]
       [] dropping /\ n = 0 -> [buffer |-> <<>>, discarding |-> TRUE, item |-> NoItem]
       [] ~dropping /\ n > 0 -> [buffer |-> rest, discarding |-> FALSE,
                                 item |-> Decode(SubSeq(b, 1, n))]
       [] ~dropping /\ n = 0 /\ Len(b) > FrameBytes ->
            [buffer |-> <<>>, discarding |-> TRUE, item |-> NoItem]
       [] OTHER -> [buffer |-> b, discarding |-> FALSE, item |-> NoItem]

(* Mutant: a frame is reported where it passes the limit and again at its end. *)
ResumeTwice(b, dropping) ==
  LET s == Scan(b, dropping)
      passed == s.discarding /\ ~dropping
  IN /\ buffer' = s.buffer
     /\ discarding' = s.discarding
     /\ reader' = [at |-> IF s.item = NoItem /\ ~passed THEN "reading" ELSE "sending",
                   item |-> IF passed THEN Rejected ELSE s.item]

(* The reader goes on: it has an item to send, or it needs another chunk. *)
Resume(b, dropping) ==
  LET s == Scan(b, dropping)
  IN /\ buffer' = s.buffer
     /\ discarding' = s.discarding
     /\ reader' = [at |-> IF s.item = NoItem THEN "reading" ELSE "sending", item |-> s.item]

StdioInit ==
  /\ script \in Scripts
  /\ input = Bytes
  /\ buffer = <<>>
  /\ discarding = FALSE
  /\ reader = [at |-> "reading", item |-> NoItem]
  /\ handed = <<>>
  /\ handler = [i \in Positions |-> "absent"]
  /\ writer = [of |-> 0, left |-> 0]
  /\ output = <<>>
  /\ main = "serving"
  /\ session = "up"

ReadChunk ==
  /\ main = "serving" /\ reader.at = "reading"
  /\ \E n \in 1..ChunkBytes :
       /\ n <= Len(input)
       /\ input' = SubSeq(input, n + 1, Len(input))
       /\ Resume(buffer \o SubSeq(input, 1, n), discarding)
  /\ UNCHANGED <<script, handed, handler, outbound, main, session>>

(* The end of the input is an item of its own while bytes are left. *)
ReadEof ==
  /\ main = "serving" /\ reader.at = "reading" /\ input = <<>>
  /\ IF discarding \/ buffer # <<>>
     THEN /\ reader' = [at |-> "sending",
                        item |-> IF discarding THEN Rejected ELSE Decode(buffer)]
          /\ main' = main
     ELSE /\ reader' = [at |-> "closed", item |-> NoItem]
          /\ main' = "grace"
  /\ buffer' = <<>>
  /\ discarding' = FALSE
  /\ UNCHANGED <<script, input, handed, handler, outbound, session>>

-----------------------------------------------------------------------------
(* The session: one handler per request, one notice per rejected frame. *)

Busy == {"running", "cancelling", "answering"}

(* The session takes the item: a request starts its handler, a cancellation *)
(* reaches the handler it names, and for a rejected frame, which is the one *)
(* next in order, a task waits to send the notice.                          *)
Deliver ==
  /\ main = "serving" /\ reader.at = "sending" /\ session = "up"
  /\ handed' = Append(handed, reader.item)
  /\ LET i == reader.item IN
       handler' =
         IF i = Rejected THEN [handler EXCEPT ![Len(handed) + 1] = "answering"]
         ELSE IF IsRequest(i) THEN [handler EXCEPT ![i] = "running"]
         ELSE IF handler[Frames[i].of] = "running"
              THEN [handler EXCEPT ![Frames[i].of] = "cancelling"] ELSE handler
  /\ Resume(buffer, discarding)
  /\ UNCHANGED <<script, input, outbound, main, session>>

(* The tool has returned or raised. *)
Respond(i) ==
  /\ main \in {"serving", "grace"} /\ handler[i] \in {"running", "cancelling"}
  /\ handler' = [handler EXCEPT ![i] = "answering"]
  /\ UNCHANGED <<inbound, outbound, main, session>>

(* A handler has unwound after the task group was cancelled. *)
Unwind(i) ==
  /\ main = "cancelled" /\ handler[i] \in Busy
  /\ handler' = [handler EXCEPT ![i] = "ended"]
  /\ UNCHANGED <<inbound, outbound, main, session>>

(* The session ends after its input, or its cancellation, and its handlers. *)
EndSession ==
  /\ session = "up"
  /\ reader.at = "closed" \/ main = "cancelled"
  /\ \A i \in Positions : handler[i] \notin Busy
  /\ session' = "closing"
  /\ UNCHANGED <<inbound, handler, outbound, main>>

(* The lifespan's finally, shielded from cancellation, has closed the runtime. *)
CloseRuntime ==
  /\ session = "closing"
  /\ session' = "done"
  /\ UNCHANGED <<inbound, handler, outbound, main>>

-----------------------------------------------------------------------------
(* The writer. *)

Writing == writer.left > 0

TakeMessage(i) ==
  /\ main \in {"serving", "grace"} /\ ~Writing /\ handler[i] = "answering"
  /\ writer' = [of |-> i, left |-> MessageBytes]
  /\ handler' = [handler EXCEPT ![i] = "ended"]
  /\ UNCHANGED <<inbound, output, main, session>>

(* Mutant: a short write is taken for a whole one. *)
WriteOnce ==
  /\ main \in {"serving", "grace"} /\ Writing
  /\ \E n \in 1..writer.left :
       /\ output' = output \o [m \in 1..n |-> writer.of]
       /\ writer' = [writer EXCEPT !.left = 0]
  /\ UNCHANGED <<inbound, handler, main, session>>

(* One write: the descriptor takes some of what is left. *)
WriteBytes ==
  /\ main \in {"serving", "grace"} /\ Writing
  /\ \E n \in 1..writer.left :
       /\ output' = output \o [m \in 1..n |-> writer.of]
       /\ writer' = [writer EXCEPT !.left = writer.left - n]
  /\ UNCHANGED <<inbound, handler, main, session>>

(* The client has closed the output: the writer's error cancels the group. *)
WriterFails ==
  /\ main \in {"serving", "grace"} /\ Writing
  /\ main' = "cancelled"
  /\ UNCHANGED <<inbound, handler, outbound, session>>

-----------------------------------------------------------------------------
(* The main task. *)

(* Mutant: no limit on the time the handlers take after the end of the input. *)
CancelWhenDone ==
  /\ main = "grace" /\ session = "done"
  /\ main' = "cancelled"
  /\ UNCHANGED <<inbound, handler, outbound, session>>

(* The server is done, or the quarter of a second is over. *)
CancelTasks ==
  /\ main = "grace"
  /\ main' = "cancelled"
  /\ UNCHANGED <<inbound, handler, outbound, session>>

Exit ==
  /\ main = "cancelled" /\ session = "done"
  /\ main' = "exited"
  /\ UNCHANGED <<inbound, handler, outbound, session>>

Transport ==
  \/ ReadChunk
  \/ ReadEof
  \/ Deliver
  \/ \E i \in Positions : TakeMessage(i)
  \/ WriteBytes
  \/ WriterFails
  \/ EndSession
  \/ CancelTasks
  \/ Exit

-----------------------------------------------------------------------------
(* Properties. *)

(* What the session is to be given for each frame. *)
Expected ==
  [i \in DOMAIN Frames |->
     IF Frames[i].kind = "malformed" \/ Frames[i].size + (IF Ended(i) THEN 1 ELSE 0) > FrameBytes
     THEN Rejected ELSE i]

(* However the bytes arrive, the session receives every frame in order, a   *)
(* frame that is too long or does not parse as one error in its place, and  *)
(* the end of the input only after the last of them.                        *)
FramesInOrder ==
  /\ Len(handed) <= Len(Expected) /\ \A n \in DOMAIN handed : handed[n] = Expected[n]
  /\ reader.at = "closed" => handed = Expected

(* A frame that is to be answered: a request that was handed over, or a     *)
(* frame that was rejected.                                                 *)
Owed(i) ==
  /\ i \in DOMAIN handed
  /\ handed[i] = Rejected \/ (handed[i] = i /\ IsRequest(i))

(* The output is a sequence of whole messages, each the response to one     *)
(* request or the notice of one rejected frame, no frame answered twice and *)
(* none that was never received; only the last may be cut short, and only   *)
(* while it is being written or once the tasks are cancelled.  And while    *)
(* the server serves, no response and no notice is lost: it is on its way,  *)
(* being written or written.                                                *)
OutputIsMessages ==
  LET whole == (Len(output) + writer.left) \div MessageBytes
      Of(k) == output[(k - 1) * MessageBytes + 1]
      answered == {k \in 1..whole : (k - 1) * MessageBytes < Len(output)}
  IN /\ (Len(output) + writer.left) % MessageBytes = 0
     /\ \A k \in answered :
          /\ Owed(Of(k))
          /\ \A n \in DOMAIN output :
               output[n] = Of(k) <=> (n - 1) \div MessageBytes = k - 1
     /\ main = "serving" =>
          \A i \in Positions : Owed(i) =>
            \/ handler[i] \in Busy
            \/ Writing /\ writer.of = i
            \/ \E n \in DOMAIN output : output[n] = i
=============================================================================
