-------------------------------- MODULE Logger --------------------------------
(***************************************************************************)
(* The logger of sonic-dbus-bridge (logger.hpp) and the handlers of        *)
(* SIGUSR1 and SIGUSR2 (bridge_app.cpp), which switch the log file on and  *)
(* off.  A handler runs on top of whatever its thread is doing: each       *)
(* thread has a stack of calls, and only the topmost one moves.            *)
(*                                                                         *)
(* syslog() is the C library's: it takes a lock of its own that is not     *)
(* recursive.  The log level only decides which LOG lines are calls at     *)
(* all; the calls here are those that pass it.                             *)
(*                                                                         *)
(* A definition whose name ends in _ is a faulty variant of the one after  *)
(* it: the property that notices the fault is named with it.               *)
(***************************************************************************)
EXTENDS Naturals, Sequences, FiniteSets

CONSTANTS
  Thread,      (* the threads of the process                                 *)
  NoThread     (* the owner of a lock that is free                           *)

ASSUME LoggerAssumption == NoThread \notin Thread

VARIABLES
  stack,        (* per thread: its LOG call and the handlers above it, the   *)
                (* topmost one first                                         *)
  fileMutex,    (* the owner of fileMutex                                    *)
  syslogLock,   (* the owner of the lock in syslog()                         *)
  logFile,      (* logFile is open                                           *)
  fileLoggingEnabled

lockVars == <<fileMutex, syslogLock>>
fileVars == <<logFile, fileLoggingEnabled>>
loggerVars == <<stack, lockVars, fileVars>>

Signal == {"SIGUSR1", "SIGUSR2"}
Call == [of : {"LOG"} \cup Signal,
         at : {"syslog", "inSyslog", "lock", "locked"}]

Idle(t) == stack[t] = <<>>
Top(t) == Head(stack[t])
IsAt(t, place) == ~Idle(t) /\ Top(t).at = place

(* A LOG line: what the thread does next waits for it. *)
Log(t) == stack' = [stack EXCEPT ![t] = <<[of |-> "LOG", at |-> "syslog"]>>]

Goto(t, place) == stack' = [stack EXCEPT ![t][1].at = place]
Return(t) == stack' = [stack EXCEPT ![t] = Tail(@)]

LoggerInit ==
  /\ stack = [t \in Thread |-> <<>>]
  /\ fileMutex = NoThread /\ syslogLock = NoThread
  /\ logFile = FALSE /\ fileLoggingEnabled = FALSE

-----------------------------------------------------------------------------
(* syslog(): called by every LOG line, and by a handler that switched the
   file, which still holds fileMutex then. *)

EnterSyslog(t) ==
  /\ IsAt(t, "syslog")
  /\ syslogLock = NoThread
  /\ syslogLock' = t
  /\ Goto(t, "inSyslog")
  /\ UNCHANGED <<fileMutex, fileVars>>

(* The macro tests the flag without fileMutex, on the way from syslog() to
   writeToFile(), which tests it again. *)
LeaveSyslog(t) ==
  /\ IsAt(t, "inSyslog")
  /\ syslogLock' = NoThread
  /\ IF Top(t).of = "LOG" /\ fileLoggingEnabled THEN Goto(t, "lock") ELSE Return(t)
  /\ fileMutex' = IF Top(t).of = "LOG" THEN fileMutex ELSE NoThread
  /\ UNCHANGED fileVars

LockFile(t) ==
  /\ IsAt(t, "lock")
  /\ fileMutex = NoThread
  /\ fileMutex' = t
  /\ Goto(t, "locked")
  /\ UNCHANGED <<syslogLock, fileVars>>

Unlock == fileMutex' = NoThread

(* Faulty: a failure to write is logged with the mutex held
   (OnlyHandlersDeadlock). *)
WriteToFileLogs_(t) ==
  /\ IsAt(t, "locked") /\ Top(t).of = "LOG"
  /\ Goto(t, "lock")
  /\ UNCHANGED <<lockVars, fileVars>>

WriteToFile(t) ==
  /\ IsAt(t, "locked") /\ Top(t).of = "LOG"
  /\ Unlock
  /\ Return(t)
  /\ UNCHANGED <<syslogLock, fileVars>>

(* enableFileLogging(); fopen() may fail, which is logged as well. *)
EnableFileLogging(t) ==
  /\ IsAt(t, "locked") /\ Top(t).of = "SIGUSR1"
  /\ UNCHANGED syslogLock
  /\ IF logFile
       THEN Unlock /\ Return(t) /\ UNCHANGED fileVars
       ELSE /\ \/ logFile' = TRUE /\ fileLoggingEnabled' = TRUE
               \/ UNCHANGED fileVars
            /\ Goto(t, "syslog")
            /\ UNCHANGED fileMutex

DisableFileLogging(t) ==
  /\ IsAt(t, "locked") /\ Top(t).of = "SIGUSR2"
  /\ UNCHANGED syslogLock
  /\ IF logFile
       THEN /\ logFile' = FALSE /\ fileLoggingEnabled' = FALSE
            /\ Goto(t, "syslog")
            /\ UNCHANGED fileMutex
       ELSE Unlock /\ Return(t) /\ UNCHANGED fileVars

LoggerStep(t) ==
  \/ EnterSyslog(t) \/ LeaveSyslog(t)
  \/ LockFile(t) \/ WriteToFile(t)
  \/ EnableFileLogging(t) \/ DisableFileLogging(t)

-----------------------------------------------------------------------------
(* A signal is taken by any thread, at any time; it is masked while its own
   handler runs, the other one is not. *)

Masked(t, s) == \E i \in DOMAIN stack[t] : stack[t][i].of = s

HandleLogSignal(t, s) ==
  /\ ~Masked(t, s)
  /\ stack' = [stack EXCEPT ![t] = <<[of |-> s, at |-> "lock"]>> \o @]
  /\ UNCHANGED <<lockVars, fileVars>>

-----------------------------------------------------------------------------
(***************************************************************************)
(* Properties                                                              *)
(***************************************************************************)

LoggerTypeOK ==
  /\ stack \in [Thread -> Seq(Call)]
  /\ fileMutex \in Thread \cup {NoThread} /\ syslogLock \in Thread \cup {NoThread}
  /\ logFile \in BOOLEAN /\ fileLoggingEnabled \in BOOLEAN

WaitsFor(t, u) ==
  \/ IsAt(t, "lock") /\ fileMutex = u
  \/ IsAt(t, "syslog") /\ syslogLock = u

(* Threads that wait for each other, or for themselves, and never go on. *)
Deadlocked ==
  UNION {S \in SUBSET Thread : \A t \in S : \E u \in S : WaitsFor(t, u)}

(* A call of t holds a lock: syslog()'s inside it, fileMutex from "locked" on;
   a handler still holds fileMutex in syslog(). *)
HoldsLock(call) ==
  \/ call.at \in {"inSyslog", "locked"}
  \/ call.of \in Signal /\ call.at = "syslog"

InterruptedHolder(t) ==
  \E i \in DOMAIN stack[t] \ {1} : HoldsLock(stack[t][i])

(***************************************************************************)
(* LOG takes the two locks one after the other, a handler takes one inside *)
(* the other.  Threads block each other for ever only if a handler         *)
(* interrupted a call that held a lock: LOG lines on any threads, and      *)
(* handlers that interrupt anything else, always get through.              *)
(***************************************************************************)
OnlyHandlersDeadlock ==
  \A S \in (SUBSET Thread) \ {{}} :
    (\A t \in S : \E u \in S : WaitsFor(t, u)) => \E t \in S : InterruptedHolder(t)
=============================================================================
