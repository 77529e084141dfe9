------------------------------- MODULE Control -------------------------------
(***************************************************************************)
(* The control socket of the init process: src/systemctl/main.go on one    *)
(* side, the accept loop and the connection goroutines of                  *)
(* src/systemd/main.go and command.go on the other, next to the boot that  *)
(* sets the global d (startup.go) and the signal handler that shuts the    *)
(* system down (shutdown.go).                                              *)
(*                                                                         *)
(* A connection is two byte streams.  A Read returns any non-empty prefix  *)
(* of what has been written, so that one Read may return several Writes;   *)
(* tokens stand for the parts the protocol tells apart.  Each command is   *)
(* one Dial: a client gives one request in its life.  What the commands do *)
(* to services is in Daemon.tla; here they print and end with a code, or   *)
(* never end.                                                              *)
(***************************************************************************)
EXTENDS Naturals, Sequences

CONSTANTS
  Clients,    \* systemctl processes
  Hung,       \* the ones that may stop reading without going away
  Jobs,       \* what each may ask for: a set of [kind, size]
  MaxOut      \* bound: pieces of output of one command

\* kind: "service" looks services up by name, "manager" calls a method of d
\* (daemon-reload, list, create- and delete-instance, status without a name),
\* "poweroff", "other" (help, an unknown command or option, set-environment),
\* "refused" (no service name).
\* size: "short" is read at once; "long" arrives in two parts; "wrapped" has an
\* argument of 2^16 bytes or more, whose length field is the length mod 2^16.
JobType == [kind : {"service", "manager", "poweroff", "other", "refused"}, size : {"short", "long", "wrapped"}]

\* retCode; on the wire, 5 bytes of magic and the code in 16 bits, lower byte
\* first.  Both codes that command() returns end in a zero byte.
Codes == {"exit 0", "exit 1"}

\* "part" and "rest" are a request that is longer than one Read, "ack" the
\* client's 0x00; "out" is a piece of output, "nul" the 0x00 that ends it.
Upward   == {"request", "part", "rest", "ack"}
Downward == {"out", "nul"} \cup Codes

ASSUME ControlAssumption ==
  /\ Hung \subseteq Clients /\ Jobs \in [Clients -> SUBSET JobType] /\ MaxOut \in Nat \ {0}

VARIABLES
  job,        \* what a client asks for
  client,     \* systemctl: "idle", "reading", "acking", "ended" (isEnd), "done", "killed"
  shown,      \* what it has printed
  told,       \* its exit: the code it received, or "failed" (log.Fatal)
  up,         \* bytes written by the client and not read
  down,       \* bytes written by the init process and not read
  conn,       \* the connection goroutine, see ConnPc
  said,       \* history: pieces of output its command has written
  ret,        \* retCode
  d,          \* the global of startup.go, an interface of two words
  signal,     \* a signal waits in the channel of signal.Notify
  stage,      \* how far each goroutine of Callers is in shutdown(), see ShutdownPc
  lock,       \* shutdownLock: "free", or the goroutine that has it
  life        \* the init process: "up", "exited", "panicked"

ConnPc == {"none", "backlog", "read", "command", "empty", "work", "stuck", "nul", "ack", "code", "closed"}

\* The two that call shutdown(): the goroutine that waits for signals, and the
\* accept loop.  startup() never returns an error, and never calls it.
Callers == {"handler", "accept"}

ShutdownPc == {"none", "lock", "close", "stop", "stopping", "hung", "exit"}

clients  == <<job, client, shown, told>>
streams  == <<up, down>>
conns    == <<conn, said, ret>>
vars     == <<clients, streams, conns, d, signal, stage, lock, life>>

TypeOK ==
  /\ job \in [Clients -> JobType]
  /\ client \in [Clients -> {"idle", "reading", "acking", "ended", "done", "killed"}]
  /\ shown \in [Clients -> Seq(Downward)]
  /\ told \in [Clients -> Codes \cup {"none", "failed"}]
  /\ up \in [Clients -> Seq(Upward)]
  /\ down \in [Clients -> Seq(Downward)]
  /\ conn \in [Clients -> ConnPc]
  /\ said \in [Clients -> 0..MaxOut]
  /\ ret \in [Clients -> Codes \cup {"none"}]
  /\ d \in {"nil", "torn", "set"}
  /\ signal \in BOOLEAN /\ stage \in [Callers -> ShutdownPc] /\ lock \in Callers \cup {"free"}
  /\ life \in {"up", "exited", "panicked"}

Init ==
  /\ job \in [Clients -> JobType] /\ \A c \in Clients : job[c] \in Jobs[c]
  /\ client = [c \in Clients |-> "idle"] /\ shown = [c \in Clients |-> <<>>]
  /\ told = [c \in Clients |-> "none"]
  /\ up = [c \in Clients |-> <<>>] /\ down = [c \in Clients |-> <<>>]
  /\ conn = [c \in Clients |-> "none"] /\ said = [c \in Clients |-> 0]
  /\ ret = [c \in Clients |-> "none"]
  /\ d = "nil" /\ signal = FALSE /\ life = "up"
  /\ stage = [g \in Callers |-> "none"] /\ lock = "free"

Up        == life = "up"
Listening == \A g \in Callers : stage[g] \in {"none", "lock", "close"}
Accepting == stage["accept"] = "none"

------------------------------------------------------------------------------
(* systemctl.                                                               *)

Gone(c)   == client[c] \in {"done", "killed"}
\* The other end has closed: Read returns EOF when the bytes are used up, and
\* Write an error.
Closed(c) == conn[c] = "closed"

Exits(c, how) ==
  /\ client' = [client EXCEPT ![c] = "done"]
  /\ told' = [told EXCEPT ![c] = how]

\* Dial and the Write of the request.
Dial(c) ==
  /\ client[c] = "idle"
  /\ IF Listening /\ Up
     THEN /\ client' = [client EXCEPT ![c] = "reading"]
          /\ up' = [up EXCEPT ![c] = IF job[c].size = "short" THEN <<"request">> ELSE <<"part", "rest">>]
          /\ conn' = [conn EXCEPT ![c] = "backlog"]
          /\ UNCHANGED told
     ELSE Exits(c, "failed") /\ UNCHANGED <<up, conn>>
  /\ UNCHANGED <<job, shown, down, said, ret, d, signal, stage, lock, life>>

\* A Read that returns the first n of the bytes.
Take(c, n) ==
  /\ n \in 1..Len(down[c])
  /\ down' = [down EXCEPT ![c] = SubSeq(@, n + 1, Len(@))]

\* HasSuffix(0x00): the end of the output, or a code that came with it.
EndsInZero(c, n) == down[c][n] # "out"

\* The 0x00 at the end is not printed.
Prints(c, n) ==
  shown' = [shown EXCEPT ![c] = @ \o SubSeq(down[c], 1, IF down[c][n] = "nul" THEN n - 1 ELSE n)]

\* Variant: the 0x00 is printed with the output it ends.
ReadOutputWhole(c, n) ==
  /\ client[c] = "reading" /\ Take(c, n)
  /\ shown' = [shown EXCEPT ![c] = @ \o SubSeq(down[c], 1, n)]
  /\ client' = [client EXCEPT ![c] = IF EndsInZero(c, n) THEN "acking" ELSE @]
  /\ UNCHANGED <<job, told, up, conns, d, signal, stage, lock, life>>

\* Lines 51-65 and 72.
ReadOutput(c, n) ==
  /\ client[c] = "reading" /\ Take(c, n)
  /\ Prints(c, n)
  /\ client' = [client EXCEPT ![c] = IF EndsInZero(c, n) THEN "acking" ELSE @]
  /\ UNCHANGED <<job, told, up, conns, d, signal, stage, lock, life>>

\* The 0x00 that asks for the code.
Ack(c) ==
  /\ client[c] = "acking"
  /\ IF Closed(c)
     THEN Exits(c, "failed") /\ UNCHANGED up
     ELSE /\ client' = [client EXCEPT ![c] = "ended"]
          /\ up' = [up EXCEPT ![c] = Append(@, "ack")]
          /\ UNCHANGED told
  /\ UNCHANGED <<job, shown, down, conns, d, signal, stage, lock, life>>

\* With isEnd set, what is read is the code or too much.
ReadCode(c, n) ==
  /\ client[c] = "ended" /\ Take(c, n)
  /\ Exits(c, IF n = 1 /\ down[c][1] \in Codes THEN down[c][1] ELSE "failed")
  /\ UNCHANGED <<job, shown, up, conns, d, signal, stage, lock, life>>

ReadFails(c) ==
  /\ client[c] \in {"reading", "ended"}
  /\ down[c] = <<>> /\ Closed(c)
  /\ Exits(c, "failed")
  /\ UNCHANGED <<job, shown, streams, conns, d, signal, stage, lock, life>>

\* The user interrupts it, perhaps before it has written its request; what it
\* has not read is dropped.
Kill(c) ==
  /\ client[c] \in {"reading", "acking", "ended"}
  /\ client' = [client EXCEPT ![c] = "killed"]
  /\ down' = [down EXCEPT ![c] = <<>>]
  /\ \/ UNCHANGED up
     \/ conn[c] \in {"backlog", "read"} /\ up' = [up EXCEPT ![c] = <<>>]
  /\ UNCHANGED <<job, shown, told, conns, d, signal, stage, lock, life>>

ClientReads(c) ==
  \/ Ack(c) \/ ReadFails(c)
  \/ \E n \in 1..Len(down[c]) : ReadOutput(c, n) \/ ReadCode(c, n)

------------------------------------------------------------------------------
(* The accept loop and the connection goroutines.                           *)

\* Variant: the loop serves a connection before it accepts the next.
AcceptOne(c) ==
  /\ Up /\ conn[c] = "backlog" /\ Accepting
  /\ \A x \in Clients : conn[x] \in {"none", "backlog", "closed"}
  /\ conn' = [conn EXCEPT ![c] = "read"]
  /\ UNCHANGED <<clients, streams, said, ret, d, signal, stage, lock, life>>

Accept(c) ==
  /\ Up /\ conn[c] = "backlog" /\ Accepting
  /\ conn' = [conn EXCEPT ![c] = "read"]
  /\ UNCHANGED <<clients, streams, said, ret, d, signal, stage, lock, life>>

\* The one Read of the request.  A length that does not fit what was read ends
\* the connection; a wrapped length fits, and cuts its argument short.
ReadRequest(c) ==
  /\ Up /\ conn[c] = "read"
  /\ \/ /\ up[c] = <<>> /\ Gone(c)
        /\ conn' = [conn EXCEPT ![c] = "closed"]
        /\ UNCHANGED up
     \/ \E n \in 1..Len(up[c]) :
          /\ job[c].size = "wrapped" => n = 1      \* the buffer is full
          /\ up' = [up EXCEPT ![c] = SubSeq(@, n + 1, Len(@))]
          /\ \E next \in IF job[c].size = "wrapped" THEN {"command", "closed"}
                          ELSE IF n = Len(up[c]) THEN {"command"} ELSE {"closed"} :
               conn' = [conn EXCEPT ![c] = next]
  /\ UNCHANGED <<clients, down, said, ret, d, signal, stage, lock, life>>

\* The process ends and its connections with it.
Dies(how) ==
  /\ life' = how
  /\ conn' = [x \in Clients |-> IF conn[x] = "none" THEN "none" ELSE "closed"]
  /\ up' = [x \in Clients |-> <<>>]
  /\ UNCHANGED <<clients, down, said, ret, d, signal, stage, lock>>

\* The handler takes one signal in its life; later ones stay in the channel.
Heard == stage["handler"] = "none"

\* command() up to what uses d.  With a nil d, findDaemons finds nothing, which
\* is a success; one half of d is set before the other, and then it is not nil
\* and has no receiver.
Command(c) ==
  /\ Up /\ conn[c] = "command"
  /\ \/ /\ \/ job[c].kind = "manager" /\ d # "set"
           \/ job[c].kind = "service" /\ d = "torn"
        /\ Dies("panicked")
     \/ /\ job[c].kind = "service" /\ d = "nil"
        /\ conn' = [conn EXCEPT ![c] = "empty"]
        /\ UNCHANGED <<clients, streams, said, ret, d, signal, stage, lock, life>>
     \/ /\ d = "set" \/ job[c].kind \in {"poweroff", "other", "refused"}
        /\ conn' = [conn EXCEPT ![c] = "work"]
        /\ signal' = (signal \/ (Heard /\ job[c].kind = "poweroff"))
        /\ UNCHANGED <<clients, streams, said, ret, d, stage, lock, life>>

Write(c, b) == down' = IF Gone(c) THEN down ELSE [down EXCEPT ![c] = Append(@, b)]

\* What a command may end with, and the messages it has printed by then.
Outcomes(c) ==
  IF conn[c] = "empty" \/ job[c].kind = "other" THEN {"exit 0"} \X {0, 1}
  ELSE IF job[c].kind = "poweroff" THEN {"exit 0"} \X {1}
  ELSE IF job[c].kind = "refused" THEN {"exit 1"} \X {1}
  ELSE ({"exit 0"} \X (0..MaxOut)) \cup ({"exit 1"} \X (1..MaxOut))

\* Print, Println, Printf: the error of the Write is ignored.
Say(c) ==
  /\ Up /\ conn[c] \in {"work", "empty"}
  /\ \E o \in Outcomes(c) : said[c] < o[2]
  /\ said' = [said EXCEPT ![c] = @ + 1]
  /\ Write(c, "out")
  /\ UNCHANGED <<clients, up, conn, ret, d, signal, stage, lock, life>>

\* Variant: a command that found nothing returns no code.
FinishNoCode(c) ==
  /\ Up /\ conn[c] = "empty"
  /\ conn' = [conn EXCEPT ![c] = "nul"]
  /\ UNCHANGED <<clients, streams, said, ret, d, signal, stage, lock, life>>

Finish(c) ==
  /\ Up /\ conn[c] \in {"work", "empty"}
  /\ \E o \in Outcomes(c) : said[c] = o[2] /\ ret' = [ret EXCEPT ![c] = o[1]]
  /\ conn' = [conn EXCEPT ![c] = "nul"]
  /\ UNCHANGED <<clients, streams, said, d, signal, stage, lock, life>>

\* A command that never ends: it waits for the lock of the list or of a service
\* that nobody gives back (Registry.tla, SelfLocked; Daemon.tla, Stalled).
Hang(c) ==
  /\ Up /\ conn[c] = "work" /\ d = "set" /\ job[c].kind \in {"service", "manager"}
  /\ conn' = [conn EXCEPT ![c] = "stuck"]
  /\ UNCHANGED <<clients, streams, said, ret, d, signal, stage, lock, life>>

WriteNul(c) ==
  /\ Up /\ conn[c] = "nul"
  /\ conn' = [conn EXCEPT ![c] = "ack"]
  /\ Write(c, "nul")
  /\ UNCHANGED <<clients, up, said, ret, d, signal, stage, lock, life>>

\* Variant: the code follows the output at once.
ReadAckSkipped(c) ==
  /\ Up /\ conn[c] = "ack"
  /\ conn' = [conn EXCEPT ![c] = "code"]
  /\ UNCHANGED <<clients, streams, said, ret, d, signal, stage, lock, life>>

\* Variant: an error of the Read is tried again.
ReadAckInsists(c) ==
  /\ Up /\ conn[c] = "ack"
  /\ up[c] # <<>>
  /\ up' = [up EXCEPT ![c] = <<>>]
  /\ conn' = [conn EXCEPT ![c] = "code"]
  /\ UNCHANGED <<clients, down, said, ret, d, signal, stage, lock, life>>

\* Whatever the client has written, or an error, which is ignored.
ReadAck(c) ==
  /\ Up /\ conn[c] = "ack"
  /\ up[c] # <<>> \/ Gone(c)
  /\ up' = [up EXCEPT ![c] = <<>>]
  /\ conn' = [conn EXCEPT ![c] = "code"]
  /\ UNCHANGED <<clients, down, said, ret, d, signal, stage, lock, life>>

\* The code, and the deferred Close.
WriteCode(c) ==
  /\ Up /\ conn[c] = "code"
  /\ conn' = [conn EXCEPT ![c] = "closed"]
  /\ Write(c, ret[c])
  /\ UNCHANGED <<clients, up, said, ret, d, signal, stage, lock, life>>

Serve(c) ==
  \/ Accept(c) \/ ReadRequest(c) \/ Command(c) \/ Say(c) \/ Finish(c)
  \/ WriteNul(c) \/ ReadAck(c) \/ WriteCode(c)

------------------------------------------------------------------------------
(* Boot and shutdown.                                                       *)

\* daemons.New returns once every enabled service has been started; the two
\* words of d are stored one after the other.
BootType ==
  /\ Up /\ d = "nil" /\ d' = "torn"
  /\ UNCHANGED <<clients, streams, conns, signal, stage, lock, life>>

BootValue ==
  /\ Up /\ d = "torn" /\ d' = "set"
  /\ UNCHANGED <<clients, streams, conns, signal, stage, lock, life>>

\* SIGTERM, SIGINT or SIGQUIT from outside.
Raise ==
  /\ Up /\ Heard /\ signal' = TRUE
  /\ UNCHANGED <<clients, streams, conns, d, stage, lock, life>>

Reaches(g, s) == stage' = [stage EXCEPT ![g] = s]

\* The handler takes the signal and calls shutdown().
Handle ==
  /\ Up /\ Heard /\ signal
  /\ signal' = FALSE /\ Reaches("handler", "lock")
  /\ UNCHANGED <<clients, streams, conns, d, lock, life>>

\* ErrClosed: the accept loop calls shutdown() as well.
AcceptFails ==
  /\ Up /\ ~Listening /\ Accepting
  /\ Reaches("accept", "lock")
  /\ UNCHANGED <<clients, streams, conns, d, signal, lock, life>>

\* Variant: the lock is given back before the socket is closed.
TakeLockShared(g) ==
  /\ Up /\ stage[g] = "lock" /\ lock = "free"
  /\ Reaches(g, "close")
  /\ UNCHANGED <<clients, streams, conns, d, signal, lock, life>>

\* shutdownLock, which is never released.
TakeLock(g) ==
  /\ Up /\ stage[g] = "lock" /\ lock = "free"
  /\ lock' = g /\ Reaches(g, "close")
  /\ UNCHANGED <<clients, streams, conns, d, signal, life>>

\* Variant: the shutdown waits for the connections to end.
CloseSocketWaits(g) ==
  /\ Up /\ stage[g] = "close" /\ \A c \in Clients : conn[c] \in {"none", "closed"}
  /\ Reaches(g, "stop")
  /\ UNCHANGED <<clients, streams, conns, d, signal, lock, life>>

\* Close and Remove; connections that nobody has accepted are reset.
CloseSocket(g) ==
  /\ Up /\ stage[g] = "close" /\ Reaches(g, "stop")
  /\ conn' = [c \in Clients |-> IF conn[c] = "backlog" THEN "closed" ELSE conn[c]]
  /\ UNCHANGED <<clients, streams, said, ret, d, signal, lock, life>>

\* The call of d.StopAll.
StopServices(g) ==
  /\ Up /\ stage[g] = "stop"
  /\ IF d = "set"
     THEN Reaches(g, "stopping") /\ UNCHANGED <<clients, streams, conns, d, signal, lock, life>>
     ELSE Dies("panicked")

\* It returns nil; or it waits for ever, for the lock of the list (daemons.go:75)
\* or of a service (daemons.go:77), or in a command of a stop.
Stopped(g) ==
  /\ Up /\ stage[g] = "stopping" /\ Reaches(g, "exit")
  /\ UNCHANGED <<clients, streams, conns, d, signal, lock, life>>

StopHangs(g) ==
  /\ Up /\ stage[g] = "stopping" /\ Reaches(g, "hung")
  /\ UNCHANGED <<clients, streams, conns, d, signal, lock, life>>

\* FinalReap and os.Exit(0).
ExitProcess(g) ==
  /\ Up /\ stage[g] = "exit" /\ Dies("exited")

ShutdownOf(g) ==
  TakeLock(g) \/ CloseSocket(g) \/ StopServices(g) \/ Stopped(g) \/ StopHangs(g) \/ ExitProcess(g)

Shutdown == Handle \/ AcceptFails \/ \E g \in Callers : ShutdownOf(g)

------------------------------------------------------------------------------

Next ==
  \/ \E c \in Clients : Dial(c) \/ ClientReads(c) \/ Kill(c) \/ Serve(c) \/ Hang(c)
  \/ BootType \/ BootValue \/ Raise \/ Shutdown

Spec == Init /\ [][Next]_vars

\* Goroutines are scheduled: a command ends or hangs, and so does StopAll.  A
\* client that is not hung reads.  Nobody has to give a command or a signal, and
\* boot does not have to end.
Fairness ==
  /\ \A c \in Clients : WF_vars(Serve(c))
  /\ \A c \in Clients \ Hung : WF_vars(ClientReads(c))
  /\ WF_vars(Shutdown)

FairSpec == Spec /\ Fairness

------------------------------------------------------------------------------
(* Properties.                                                              *)

\* The code is never on its way before the client has asked for it, so that no
\* Read returns it together with output (main.go:199-208 and the comment
\* "wait for 0x00 response"); only a request with a wrapped length, whose second part is
\* taken for the answer, breaks this.
CodeAfterReady ==
  \A c \in Clients : job[c].size # "wrapped" =>
    ((\E i \in DOMAIN down[c] : down[c][i] \in Codes) => client[c] \in {"ended", "killed"})

\* What the promise of Exchange is about: the requests whose lengths fit.
Fits(c)  == job[c].size # "wrapped"
Told     == [c \in Clients |-> IF Fits(c) THEN told[c] ELSE "none"]
Said     == [c \in Clients |-> IF Fits(c) THEN said[c] ELSE 0]
Over     == [c \in Clients |-> IF Fits(c) THEN ret[c] ELSE "none"]
Shown    == [c \in Clients |-> IF Fits(c) THEN Len(shown[c]) ELSE 0]

Talk == INSTANCE Exchange WITH told <- Told, said <- Said, over <- Over, shown <- Shown

\* Every step of the sockets is a step of Exchange or changes nothing there:
\* the user sees the pieces of output in order and none twice, and systemctl
\* exits with the code of the command only after the last of them (comments at main.go:28-32 and
\* systemctl/main.go:20-24).
ImplementsExchange == Talk!Spec

\* The accept loop calls shutdown() too when the listener is closed, and its
\* StopAll would skip the services that are being stopped (daemons.go:78-80): the
\* process never exits while a StopAll is under way (shutdownLock, shutdown.go:15,
\* which nobody gives back).
ExitsStopped == life = "exited" => \A g \in Callers : stage[g] \notin {"stopping", "hung"}

\* A client is answered, or told that it failed, whatever other clients do: one
\* that stops reading, one that goes away, one whose command hangs, a shutdown in
\* the middle, a panic.  Only a command of its own that hangs keeps it waiting.
Answered == \A c \in Clients \ Hung : (client[c] = "reading") ~> (Gone(c) \/ conn[c] = "stuck")

\* A connection goroutine ends with its client (main.go:204 waits for a byte of
\* it), whether the client leaves before the request is read or in any later step;
\* only the goroutine of a command that hangs stays.
ConnectionEnds == \A c \in Clients : (conn[c] # "none" /\ Gone(c)) ~> (conn[c] \in {"closed", "stuck"})

\* A signal ends the init process though the handler and the accept loop meet in
\* shutdown() (shutdown.go:15), clients are connected and commands hang: only a
\* StopAll that waits for ever keeps it (daemons.go:75 and 77).
SignalEnds == signal ~> (~Up \/ \E g \in Callers : stage[g] = "hung")
==============================================================================
