----------------------------- MODULE MessageQueue -----------------------------
(***************************************************************************)
(* AVThreadMessageQueue of libavutil/threadmessage.c: a bounded FIFO       *)
(* behind one mutex, with a condition for those who send and one for those *)
(* who receive, and an error for each that ends their waiting.             *)
(*                                                                         *)
(* Every operator is one critical section.  A thread in sendWait or        *)
(* recvWait is inside pthread_cond_wait; it is taken out by a signal or a  *)
(* broadcast and then repeats its critical section, as the loops in the    *)
(* code do.                                                                *)
(***************************************************************************)
EXTENDS Naturals, Sequences

CONSTANTS
  QueueSize, \* nelem of av_thread_message_queue_alloc
  NoErr      \* err_send and err_recv when nobody has set them

ASSUME QueueAssumption == QueueSize \in Nat \ {0}

VARIABLES
  queue,             \* mq->fifo
  errSend, errRecv,  \* mq->err_send, mq->err_recv
  sendWait, recvWait \* threads that wait on cond_send and on cond_recv

queueVars == <<queue, errSend, errRecv, sendWait, recvWait>>

QueueInit ==
  /\ queue = <<>> /\ errSend = NoErr /\ errRecv = NoErr
  /\ sendWait = {} /\ recvWait = {}

(* pthread_cond_signal, which wakes any one of those that wait. *)
Signalled(waiting) == IF waiting = {} THEN {{}} ELSE {waiting \ {t} : t \in waiting}

(* Mutants: plausible bugs the properties must notice. *)
SetErrSendQuietly(e) ==
  /\ errSend' = e
  /\ UNCHANGED <<queue, errRecv, sendWait, recvWait>>

-----------------------------------------------------------------------------
(* av_thread_message_queue_send_locked: the message goes in, one receiver is *)
(* woken...                                                                  *)
SendPuts(m) ==
  /\ errSend = NoErr /\ Len(queue) < QueueSize
  /\ queue' = Append(queue, m)
  /\ recvWait' \in Signalled(recvWait)
  /\ UNCHANGED <<errSend, errRecv, sendWait>>

(* ... or the queue is full: with AV_THREAD_MESSAGE_NONBLOCK the answer is   *)
(* EAGAIN, otherwise thread t waits...                                       *)
SendFull == errSend = NoErr /\ Len(queue) = QueueSize

SendWaits(t) ==
  /\ SendFull
  /\ sendWait' = sendWait \union {t}
  /\ UNCHANGED <<queue, errSend, errRecv, recvWait>>

(* ... or somebody has told the senders to stop. *)
SendFails == errSend # NoErr

(* av_thread_message_queue_recv_locked: what is queued is received even      *)
(* after an error was set.                                                   *)
RecvTakes ==
  /\ queue # <<>>
  /\ queue' = Tail(queue)
  /\ sendWait' \in Signalled(sendWait)
  /\ UNCHANGED <<errSend, errRecv, recvWait>>

RecvWaits(t) ==
  /\ queue = <<>> /\ errRecv = NoErr
  /\ recvWait' = recvWait \union {t}
  /\ UNCHANGED <<queue, errSend, errRecv, sendWait>>

RecvFails == queue = <<>> /\ errRecv # NoErr

SetErrSend(e) ==
  /\ errSend' = e /\ sendWait' = {}
  /\ UNCHANGED <<queue, errRecv, recvWait>>

SetErrRecv(e) ==
  /\ errRecv' = e /\ recvWait' = {}
  /\ UNCHANGED <<queue, errSend, sendWait>>

(* av_thread_message_flush: the senders have room again. *)
Flush ==
  /\ queue' = <<>> /\ sendWait' = {}
  /\ UNCHANGED <<errSend, errRecv, recvWait>>

-----------------------------------------------------------------------------
(* Nobody sleeps in vain: while a thread waits for a message there is none   *)
(* and no error, while one waits for room there is none and no error.  A     *)
(* message wakes one receiver only and a free place one sender, so this      *)
(* holds for one thread on each side (see FifoMuxer).                        *)
NobodySleepsInVain ==
  /\ recvWait # {} => queue = <<>> /\ errRecv = NoErr
  /\ sendWait # {} => Len(queue) = QueueSize /\ errSend = NoErr
=============================================================================
