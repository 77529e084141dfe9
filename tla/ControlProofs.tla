----------------------------- MODULE ControlProofs -----------------------------
(***************************************************************************)
(* Proofs about Control for any clients, requests and amount of output:    *)
(* type correctness, that the exit code never overtakes the output, that   *)
(* no exit cuts a StopAll off, and that the connections implement          *)
(* Exchange.                                                               *)
(***************************************************************************)
EXTENDS Control, SequenceTheorems, TLAPS

\* Places of a connection before the 0x00 that ends its output.
Early == {"none", "backlog", "read", "command", "empty", "work", "stuck", "nul"}

\* The client has asked for the code, or will never ask.
After == {"ended", "done", "killed"}

\* Output and nothing else.
Output(s) == \A i \in 1..Len(s) : s[i] = "out"

\* What the client has printed, and what it has before it.
Printed(c) == Len(shown[c])
Unread(c)  == Len(down[c])

\* A client that reads has printed, or has before it, all that was said.
Pending(c) ==
  \/ Output(down[c]) /\ Printed(c) + Unread(c) = said[c]
  \/ /\ conn[c] \in {"ack", "closed"} /\ ret[c] # "none"
     /\ down[c] # <<>> /\ down[c][Len(down[c])] = "nul"
     /\ \A i \in 1..(Len(down[c]) - 1) : down[c][i] = "out"
     /\ Printed(c) + Unread(c) = said[c] + 1

\* A client that has seen the 0x00 has printed everything.
Complete(c) == Printed(c) = said[c] /\ ret[c] # "none" /\ conn[c] \in {"ack", "code", "closed"}

\* Where the two ends of a connection are with each other.
Talking(c) ==
  /\ conn[c] \in Early => client[c] \in {"idle", "reading", "done", "killed"}
  /\ conn[c] \in {"command", "empty", "work", "stuck", "nul", "ack"} /\ up[c] # <<>> => client[c] \in After
  /\ conn[c] = "code" => client[c] \in After
  /\ client[c] = "idle" => down[c] = <<>> /\ said[c] = 0 /\ shown[c] = <<>>
  /\ client[c] = "reading" => Pending(c)
  /\ client[c] = "acking" => Complete(c) /\ down[c] = <<>>
  /\ client[c] = "ended" => Complete(c) /\ (down[c] = <<>> \/ (conn[c] = "closed" /\ down[c] = <<ret[c]>>))
  /\ Gone(c) => down[c] = <<>>

\* The code is there once the command is over, and told at the end.
Ending(c) ==
  /\ client[c] = "idle" => conn[c] = "none"
  /\ conn[c] \in {"none", "backlog", "read", "command", "empty", "work", "stuck"} => ret[c] = "none"
  /\ conn[c] \in {"nul", "ack", "code"} => ret[c] # "none"
  /\ told[c] # "none" <=> client[c] = "done"

IInv == TypeOK /\ \A c \in Clients : Ending(c) /\ (Fits(c) => Talking(c))

------------------------------------------------------------------------------
(* Type correctness.                                                        *)

\* A command ends with a code after at most MaxOut pieces of output.
LEMMA OutcomesTyped ==
  ASSUME TypeOK, NEW c \in Clients, NEW o \in Outcomes(c)
  PROVE  o[1] \in Codes /\ o[2] \in 0..MaxOut
<1>1. MaxOut \in Nat /\ {0, 1} \subseteq 0..MaxOut /\ 1..MaxOut \subseteq 0..MaxOut
      BY ControlAssumption
<1>2. \/ o \in {"exit 0"} \X {0, 1} \/ o \in {"exit 0"} \X {1} \/ o \in {"exit 1"} \X {1}
      \/ o \in {"exit 0"} \X (0..MaxOut) \/ o \in {"exit 1"} \X (1..MaxOut)
      BY DEF Outcomes
<1>3. CASE o \in {"exit 0"} \X {0, 1}
      BY <1>1, <1>3 DEF Codes
<1>4. CASE o \in {"exit 0"} \X (0..MaxOut)
      BY <1>4 DEF Codes
<1>5. CASE o \in {"exit 1"} \X (1..MaxOut)
      BY <1>1, <1>5 DEF Codes
<1>6. CASE o \in {"exit 0"} \X {1} \/ o \in {"exit 1"} \X {1}
      BY <1>1, <1>6 DEF Codes
<1> QED
  BY <1>2, <1>3, <1>4, <1>5, <1>6

\* What is left of the bytes after a Read, and what was read.
LEMMA TakeTyped ==
  ASSUME TypeOK, NEW c \in Clients, NEW n \in 1..Len(down[c])
  PROVE  /\ SubSeq(down[c], n + 1, Len(down[c])) \in Seq(Downward)
         /\ Len(SubSeq(down[c], n + 1, Len(down[c]))) = Len(down[c]) - n
         /\ \A i \in 1..(Len(down[c]) - n) : SubSeq(down[c], n + 1, Len(down[c]))[i] = down[c][n + i]
         /\ \A k \in 0..n : /\ SubSeq(down[c], 1, k) \in Seq(Downward)
                            /\ Len(SubSeq(down[c], 1, k)) = k
<1>1. down[c] \in Seq(Downward) /\ Len(down[c]) \in Nat
      BY LenProperties DEF TypeOK
<1>2. \A i \in 1..Len(down[c]) : down[c][i] \in Downward
      BY <1>1, ElementOfSeq
<1>3. /\ SubSeq(down[c], n + 1, Len(down[c])) \in Seq(Downward)
      /\ Len(SubSeq(down[c], n + 1, Len(down[c]))) = IF n + 1 <= Len(down[c]) THEN Len(down[c]) - (n + 1) + 1 ELSE 0
      /\ \A i \in 1..(Len(down[c]) - (n + 1) + 1) :
           SubSeq(down[c], n + 1, Len(down[c]))[i] = down[c][n + 1 + i - 1]
  <2>1. n + 1 \in Int /\ Len(down[c]) \in Int
        BY <1>1
  <2>2. \A i \in (n + 1)..Len(down[c]) : down[c][i] \in Downward
        BY <1>1, <1>2
  <2> QED
    BY <2>1, <2>2, SubSeqProperties
<1>4. ASSUME NEW k \in 0..n
      PROVE  SubSeq(down[c], 1, k) \in Seq(Downward) /\ Len(SubSeq(down[c], 1, k)) = k
  <2>1. k \in Int /\ \A i \in 1..k : down[c][i] \in Downward
        BY <1>1, <1>2
  <2>2. /\ SubSeq(down[c], 1, k) \in Seq(Downward)
        /\ Len(SubSeq(down[c], 1, k)) = IF 1 <= k THEN k - 1 + 1 ELSE 0
        BY <2>1, SubSeqProperties
  <2> QED
    BY <2>2
<1> QED
  BY <1>1, <1>3, <1>4

LEMMA InitTypeOK == Init => TypeOK
<1>1. <<>> \in Seq(Downward) /\ <<>> \in Seq(Upward)
      OBVIOUS
<1>2. 0 \in 0..MaxOut
      BY ControlAssumption
<1>3. ASSUME Init
      PROVE  /\ shown \in [Clients -> Seq(Downward)] /\ down \in [Clients -> Seq(Downward)]
             /\ up \in [Clients -> Seq(Upward)] /\ said \in [Clients -> 0..MaxOut]
      BY <1>1, <1>2, <1>3 DEF Init
<1>4. ASSUME Init
      PROVE  /\ job \in [Clients -> JobType] /\ conn \in [Clients -> ConnPc]
             /\ client \in [Clients -> {"idle", "reading", "acking", "ended", "done", "killed"}]
             /\ told \in [Clients -> Codes \cup {"none", "failed"}] /\ ret \in [Clients -> Codes \cup {"none"}]
      BY <1>4 DEF Init, ConnPc
<1>5. ASSUME Init
      PROVE  /\ d \in {"nil", "torn", "set"} /\ signal \in BOOLEAN /\ lock \in Callers \cup {"free"}
             /\ stage \in [Callers -> ShutdownPc] /\ life \in {"up", "exited", "panicked"}
      BY <1>5 DEF Init, ShutdownPc
<1> QED
  BY <1>3, <1>4, <1>5 DEF TypeOK

LEMMA ReadTyped ==
  ASSUME TypeOK, NEW c \in Clients, NEW n \in 1..Len(down[c]), ReadOutput(c, n) \/ ReadCode(c, n)
  PROVE  TypeOK'
<1>1. /\ SubSeq(down[c], n + 1, Len(down[c])) \in Seq(Downward)
      /\ \A k \in 0..n : SubSeq(down[c], 1, k) \in Seq(Downward)
      BY TakeTyped
<1>2. down' \in [Clients -> Seq(Downward)]
      BY <1>1 DEF ReadOutput, ReadCode, Take, TypeOK
<1>3. shown' \in [Clients -> Seq(Downward)]
  <2>1. shown[c] \in Seq(Downward) /\ n \in 0..n /\ n - 1 \in 0..n
        BY DEF TypeOK
  <2>2. shown[c] \o SubSeq(down[c], 1, n) \in Seq(Downward) /\ shown[c] \o SubSeq(down[c], 1, n - 1) \in Seq(Downward)
        BY <1>1, <2>1, ConcatProperties
  <2> QED
    BY <2>2 DEF ReadOutput, ReadCode, Prints, TypeOK
<1>4. told' \in [Clients -> Codes \cup {"none", "failed"}] /\ client' \in [Clients -> {"idle", "reading", "acking", "ended", "done", "killed"}]
      BY DEF ReadOutput, ReadCode, Exits, TypeOK, EndsInZero
<1> QED
  BY <1>2, <1>3, <1>4 DEF ReadOutput, ReadCode, TypeOK, conns

LEMMA ClientTyped ==
  ASSUME TypeOK, NEW c \in Clients, Dial(c) \/ ClientReads(c) \/ Kill(c)
  PROVE  TypeOK'
<1>1. <<>> \in Seq(Upward) /\ <<"request">> \in Seq(Upward) /\ <<"part", "rest">> \in Seq(Upward) /\ <<>> \in Seq(Downward)
      BY DEF Upward
<1>2. CASE Dial(c)
  <2>1. CASE Listening /\ Up
    <3>1. up' \in [Clients -> Seq(Upward)]
          BY <1>1, <1>2, <2>1 DEF Dial, TypeOK
    <3> QED
      BY <1>2, <2>1, <3>1 DEF Dial, TypeOK, ConnPc
  <2>2. CASE ~(Listening /\ Up)
        BY <1>2, <2>2 DEF Dial, Exits, TypeOK
  <2> QED
    BY <2>1, <2>2
<1>3. CASE Kill(c)
      BY <1>1, <1>3 DEF Kill, TypeOK, conns
<1>4. CASE Ack(c)
  <2>1. Append(up[c], "ack") \in Seq(Upward)
        BY DEF TypeOK, Upward
  <2> QED
    BY <2>1, <1>4 DEF Ack, Exits, TypeOK, conns
<1>5. CASE ReadFails(c)
      BY <1>5 DEF ReadFails, Exits, TypeOK, conns, streams
<1> QED
  BY <1>2, <1>3, <1>4, <1>5, ReadTyped DEF ClientReads

\* The bytes that are left after the Read of a request.
LEMMA RequestTyped ==
  ASSUME TypeOK, NEW c \in Clients, NEW n \in 1..Len(up[c])
  PROVE  /\ SubSeq(up[c], n + 1, Len(up[c])) \in Seq(Upward)
         /\ n = Len(up[c]) => SubSeq(up[c], n + 1, Len(up[c])) = <<>>
<1>1. up[c] \in Seq(Upward) /\ Len(up[c]) \in Nat
      BY LenProperties DEF TypeOK
<1>2. \A i \in (n + 1)..Len(up[c]) : up[c][i] \in Upward
      BY <1>1, ElementOfSeq
<1>3. SubSeq(up[c], n + 1, Len(up[c])) \in Seq(Upward)
      BY <1>1, <1>2, SubSeqProperties
<1>4. CASE n = Len(up[c])
  <2>1. n + 1 \in Int /\ Len(up[c]) \in Int /\ Len(up[c]) < n + 1
        BY <1>1, <1>4
  <2> QED
    BY <1>3, <2>1, SubSeqEmpty
<1> QED
  BY <1>3, <1>4

LEMMA ServeTyped ==
  ASSUME TypeOK, NEW c \in Clients, Ending(c), Serve(c)
  PROVE  TypeOK'
<1>0. \A b \in Downward : Append(down[c], b) \in Seq(Downward)
      BY DEF TypeOK
<1>1. <<>> \in Seq(Upward)
      OBVIOUS
<1>2. CASE Accept(c)
      BY <1>2 DEF Accept, TypeOK, ConnPc, clients, streams
<1>3. CASE ReadRequest(c)
  <2>1. \A n \in 1..Len(up[c]) : SubSeq(up[c], n + 1, Len(up[c])) \in Seq(Upward)
        BY RequestTyped
  <2>2. up' \in [Clients -> Seq(Upward)]
        BY <1>3, <2>1 DEF ReadRequest, TypeOK
  <2>3. conn' \in [Clients -> ConnPc]
    <3>1. PICK next \in {"command", "closed"} : conn' = [conn EXCEPT ![c] = next]
          BY <1>3 DEF ReadRequest
    <3> QED
      BY <3>1 DEF TypeOK, ConnPc
  <2> QED
    BY <1>3, <2>2, <2>3 DEF ReadRequest, TypeOK, clients
<1>4. CASE Command(c)
  <2>1. signal' \in BOOLEAN
        BY <1>4 DEF Command, Dies, TypeOK
  <2>2. conn' \in [Clients -> ConnPc] /\ up' \in [Clients -> Seq(Upward)]
    <3>1. CASE Dies("panicked")
          BY <1>1, <3>1 DEF Dies, TypeOK, ConnPc
    <3>2. ASSUME NEW next \in {"empty", "work"}, conn' = [conn EXCEPT ![c] = next], UNCHANGED streams
          PROVE  conn' \in [Clients -> ConnPc] /\ up' \in [Clients -> Seq(Upward)]
          BY <3>2 DEF TypeOK, ConnPc, streams
    <3>3. \/ Dies("panicked")
          \/ \E next \in {"empty", "work"} : conn' = [conn EXCEPT ![c] = next] /\ UNCHANGED streams
          BY <1>4 DEF Command
    <3> QED
      BY <3>1, <3>2, <3>3
  <2> QED
    BY <1>4, <2>1, <2>2 DEF Command, Dies, TypeOK, clients, streams
<1>5. CASE Say(c)
  <2>1. PICK o \in Outcomes(c) : said[c] < o[2]
        BY <1>5 DEF Say
  <2>2. said[c] + 1 \in 0..MaxOut
    <3>1. o[2] \in 0..MaxOut /\ said[c] \in 0..MaxOut
          BY OutcomesTyped DEF TypeOK
    <3>2. MaxOut \in Nat
          BY ControlAssumption
    <3> QED
      BY <2>1, <3>1, <3>2
  <2> QED
    BY <1>0, <1>5, <2>2 DEF Say, Write, TypeOK, clients, Downward
<1>6. CASE Finish(c)
  <2>1. PICK o \in Outcomes(c) : said[c] = o[2] /\ ret' = [ret EXCEPT ![c] = o[1]]
        BY <1>6 DEF Finish
  <2> QED
    BY <1>6, <2>1, OutcomesTyped DEF Finish, TypeOK, clients, streams, ConnPc
<1>7. CASE WriteNul(c)
      BY <1>0, <1>7 DEF WriteNul, Write, TypeOK, clients, Downward, ConnPc
<1>8. CASE ReadAck(c)
      BY <1>1, <1>8 DEF ReadAck, TypeOK, clients, ConnPc
<1>9. CASE WriteCode(c)
  <2>1. ret[c] \in Codes
        BY <1>9 DEF WriteCode, Ending, TypeOK
  <2> QED
    BY <1>0, <1>9, <2>1 DEF WriteCode, Write, TypeOK, clients, Downward, ConnPc
<1> QED
  BY <1>2, <1>3, <1>4, <1>5, <1>6, <1>7, <1>8, <1>9 DEF Serve

LEMMA HangTyped ==
  ASSUME TypeOK, NEW c \in Clients, Hang(c)
  PROVE  TypeOK'
  BY DEF Hang, TypeOK, ConnPc, clients, streams

LEMMA SystemTyped ==
  ASSUME TypeOK, BootType \/ BootValue \/ Raise \/ Shutdown \/ UNCHANGED vars
  PROVE  TypeOK'
<1>1. <<>> \in Seq(Upward)
      OBVIOUS
<1>2. CASE BootType \/ BootValue
      BY <1>2 DEF BootType, BootValue, TypeOK, clients, streams, conns
<1>0. \A g \in Callers, s \in ShutdownPc : [stage EXCEPT ![g] = s] \in [Callers -> ShutdownPc]
      BY DEF TypeOK
<1>3. CASE Raise \/ Handle \/ AcceptFails
  <2>1. signal' \in BOOLEAN /\ stage' \in [Callers -> ShutdownPc]
        BY <1>0, <1>3 DEF Raise, Handle, AcceptFails, Reaches, TypeOK, Callers, ShutdownPc
  <2> QED
    BY <1>3, <2>1 DEF Raise, Handle, AcceptFails, TypeOK, clients, streams, conns
<1>4. ASSUME NEW g \in Callers, CloseSocket(g) PROVE TypeOK'
  <2>1. stage' \in [Callers -> ShutdownPc]
        BY <1>0, <1>4 DEF CloseSocket, Reaches, ShutdownPc
  <2> QED
    BY <1>4, <2>1 DEF CloseSocket, TypeOK, clients, streams, ConnPc
<1>5. ASSUME NEW g \in Callers, TakeLock(g) \/ Stopped(g) \/ StopHangs(g) PROVE TypeOK'
  <2>1. stage' \in [Callers -> ShutdownPc] /\ lock' \in Callers \cup {"free"}
        BY <1>0, <1>5 DEF TakeLock, Stopped, StopHangs, Reaches, ShutdownPc, TypeOK
  <2> QED
    BY <1>5, <2>1 DEF TakeLock, Stopped, StopHangs, TypeOK, clients, streams, conns
<1>6. ASSUME NEW g \in Callers, StopServices(g) PROVE TypeOK'
  <2>1. CASE d = "set"
    <3>1. stage' \in [Callers -> ShutdownPc]
          BY <1>0, <1>6, <2>1 DEF StopServices, Reaches, ShutdownPc
    <3> QED
      BY <1>6, <2>1, <3>1 DEF StopServices, TypeOK, clients, streams, conns
  <2>2. CASE d # "set"
        BY <1>1, <1>6, <2>2 DEF StopServices, Dies, TypeOK, clients, streams, ConnPc
  <2> QED
    BY <2>1, <2>2
<1>7. ASSUME NEW g \in Callers, ExitProcess(g) PROVE TypeOK'
      BY <1>1, <1>7 DEF ExitProcess, Dies, TypeOK, clients, streams, ConnPc
<1>8. CASE UNCHANGED vars
      BY <1>8 DEF TypeOK, vars, clients, streams, conns
<1> QED
  BY <1>2, <1>3, <1>4, <1>5, <1>6, <1>7, <1>8 DEF Shutdown, ShutdownOf

------------------------------------------------------------------------------
(* The two ends of a connection.                                            *)

\* What a step leaves alone: the client, and the connection but for its end,
\* which drops what the client has written.
Apart(c) ==
  /\ job' = job /\ client'[c] = client[c] /\ shown'[c] = shown[c] /\ told'[c] = told[c]
  /\ down'[c] = down[c] /\ said'[c] = said[c] /\ ret'[c] = ret[c]
  /\ up'[c] \in {up[c], <<>>}
  /\ conn'[c] = conn[c] \/ (conn'[c] = "closed" /\ conn[c] # "none")

LEMMA ApartKeeps ==
  ASSUME NEW c \in Clients, Apart(c), Ending(c), Fits(c) => Talking(c)
  PROVE  Ending(c)' /\ (Fits(c)' => Talking(c)')
<1>1. Fits(c)' = Fits(c)
      BY DEF Apart, Fits
<1>2. Ending(c)'
      BY DEF Apart, Ending
<1>3. ASSUME Talking(c) PROVE Talking(c)'
  <2>1. Pending(c) => Pending(c)'
        BY DEF Apart, Pending, Output, Printed, Unread
  <2>2. Complete(c) => Complete(c)'
        BY DEF Apart, Complete, Printed
  <2>3. Gone(c)' = Gone(c)
        BY DEF Apart, Gone
  <2> QED
    BY <1>3, <2>1, <2>2, <2>3 DEF Apart, Talking, Early
<1> QED
  BY <1>1, <1>2, <1>3

\* A connection that nobody else touches.
LEMMA OthersApart ==
  ASSUME TypeOK, NEW c \in Clients, NEW x \in Clients, x # c,
         Dial(c) \/ ClientReads(c) \/ Kill(c) \/ Serve(c) \/ Hang(c)
  PROVE  Apart(x)
<1>1. CASE Dial(c) \/ Kill(c)
      BY <1>1 DEF Dial, Kill, Exits, Apart, conns, TypeOK
<1>2. CASE ClientReads(c)
      BY <1>2 DEF ClientReads, Ack, ReadFails, ReadOutput, ReadCode, Prints, Take, Exits, Apart, conns, streams, TypeOK
<1>3. CASE Command(c)
      BY <1>3 DEF Command, Dies, Apart, clients, streams, TypeOK
<1>4. CASE (Serve(c) /\ ~Command(c)) \/ Hang(c)
      BY <1>4 DEF Hang, Serve, Accept, ReadRequest, Say, Finish, WriteNul, ReadAck, WriteCode, Write, Apart, clients, streams, TypeOK
<1> QED
  BY <1>1, <1>2, <1>3, <1>4

LEMMA SystemApart ==
  ASSUME TypeOK, NEW x \in Clients, BootType \/ BootValue \/ Raise \/ Shutdown \/ UNCHANGED vars
  PROVE  Apart(x)
  BY DEF BootType, BootValue, Raise, Shutdown, Handle, CloseSocket, AcceptFails, ShutdownOf, TakeLock, StopServices, Stopped,
         StopHangs, ExitProcess, Reaches, Dies, vars,
         clients, streams, conns, Apart, TypeOK

\* The output before the 0x00 has codes nowhere.
LEMMA PendingPrefix ==
  ASSUME TypeOK, NEW c \in Clients, Pending(c), NEW n \in 1..Len(down[c])
  PROVE  /\ down[c][n] # "out" => n = Len(down[c]) /\ ~Output(down[c])
         /\ down[c][n] \notin Codes
<1>1. Len(down[c]) \in Nat
      BY LenProperties DEF TypeOK
<1>2. CASE Output(down[c])
      BY <1>1, <1>2 DEF Output, Codes
<1>3. CASE ~Output(down[c])
  <2>1. down[c][Len(down[c])] = "nul" /\ \A i \in 1..(Len(down[c]) - 1) : down[c][i] = "out"
        BY <1>3 DEF Pending
  <2>2. CASE n = Len(down[c])
        BY <1>3, <2>1, <2>2 DEF Codes
  <2>3. CASE n # Len(down[c])
    <3>1. n \in 1..(Len(down[c]) - 1)
          BY <1>1, <2>3
    <3>2. down[c][n] = "out"
          BY <2>1, <3>1
    <3> QED
      BY <3>2 DEF Codes
  <2> QED
    BY <2>2, <2>3
<1> QED
  BY <1>2, <1>3

LEMMA ReadPrints ==
  ASSUME TypeOK, NEW c \in Clients, NEW n \in 1..Len(down[c]), ReadOutput(c, n)
  PROVE  \E k \in 0..n : Printed(c)' = Printed(c) + k
<1> DEFINE k == IF down[c][n] = "nul" THEN n - 1 ELSE n
           p == SubSeq(down[c], 1, k)
<1>1. k \in 0..n
      OBVIOUS
<1>2. p \in Seq(Downward) /\ Len(p) = k
      BY <1>1, TakeTyped
<1>3. shown' = [shown EXCEPT ![c] = @ \o p]
      BY DEF ReadOutput, Prints
<1> HIDE DEF k, p
<1>4. shown'[c] = shown[c] \o p /\ shown[c] \in Seq(Downward)
      BY <1>3 DEF TypeOK
<1>5. Len(shown[c] \o p) = Len(shown[c]) + k
      BY <1>2, <1>4, ConcatProperties
<1>6. Printed(c)' = Printed(c) + k
      BY <1>4, <1>5 DEF Printed
<1> QED
  BY <1>1, <1>6

LEMMA ReadOutputTalks ==
  ASSUME IInv, NEW c \in Clients, NEW n \in 1..Len(down[c]), ReadOutput(c, n), Fits(c)
  PROVE  Talking(c)'
<1> DEFINE rest == SubSeq(down[c], n + 1, Len(down[c]))
           k == IF down[c][n] = "nul" THEN n - 1 ELSE n
<1>t. TypeOK
      BY DEF IInv
<1>0. /\ Len(down[c]) \in Nat /\ Len(shown[c]) \in Nat /\ shown[c] \in Seq(Downward) /\ said[c] \in Nat
      /\ Pending(c) /\ client[c] = "reading"
      BY <1>t, LenProperties DEF IInv, Talking, ReadOutput, TypeOK
<1>1. /\ Len(rest) = Len(down[c]) - n
      /\ \A i \in 1..(Len(down[c]) - n) : rest[i] = down[c][n + i]
      /\ k \in 0..n /\ SubSeq(down[c], 1, k) \in Seq(Downward) /\ Len(SubSeq(down[c], 1, k)) = k
  <2>1. k \in 0..n
        OBVIOUS
  <2> QED
    BY <1>t, <2>1, TakeTyped
<1>2. /\ down'[c] = rest /\ shown'[c] = shown[c] \o SubSeq(down[c], 1, k)
      /\ client'[c] = IF down[c][n] # "out" THEN "acking" ELSE "reading"
      /\ UNCHANGED <<said, ret, conn, up>>
  <2>1. shown' = [shown EXCEPT ![c] = @ \o SubSeq(down[c], 1, k)]
        BY DEF ReadOutput, Prints
  <2> HIDE DEF k
  <2> QED
    BY <1>t, <1>0, <2>1 DEF ReadOutput, Take, EndsInZero, TypeOK, conns
<1> HIDE DEF rest, k
<1>3. Len(shown'[c]) = Len(shown[c]) + k
  <2> DEFINE p == SubSeq(down[c], 1, k)
  <2>1. p \in Seq(Downward) /\ Len(p) = k /\ shown'[c] = shown[c] \o p
        BY <1>1, <1>2
  <2> HIDE DEF p
  <2> QED
    BY <1>0, <2>1, ConcatProperties
<1>l. Unread(c)' = Unread(c) - n /\ Printed(c)' = Printed(c) + k /\ said'[c] = said[c] /\ Len(down[c]) \in 1..Len(down[c])
  <2>1. Unread(c)' = Len(rest) /\ Printed(c)' = Printed(c) + k
        BY <1>2, <1>3 DEF Printed, Unread
  <2>2. Len(rest) = Unread(c) - n
        BY <1>1 DEF Unread
  <2>3. Len(down[c]) \in 1..Len(down[c])
        BY <1>0
  <2> QED
    BY <1>2, <2>1, <2>2, <2>3
<1>m. Unread(c) \in Nat /\ Printed(c) \in Nat
      BY <1>0 DEF Printed, Unread
<1>4. CASE down[c][n] = "out"
  <2>1. k = n
        BY <1>4 DEF k
  <2>2. Output(down[c]) => Output(rest)
        BY <1>0, <1>1 DEF Output
  <2>3. ~Output(down[c]) => /\ rest # <<>> /\ rest[Len(rest)] = "nul"
                            /\ \A i \in 1..(Len(rest) - 1) : rest[i] = "out"
    <3>1. SUFFICES ASSUME ~Output(down[c]) PROVE /\ Len(rest) \in Nat \ {0} /\ rest[Len(rest)] = "nul"
                                                 /\ \A i \in 1..(Len(rest) - 1) : rest[i] = "out"
          BY <1>t, TakeTyped, EmptySeq DEF rest
    <3>2. /\ Len(down[c]) # n /\ down[c][Len(down[c])] = "nul"
          /\ \A i \in 1..(Len(down[c]) - 1) : down[c][i] = "out"
          BY <1>0, <1>4, <3>1 DEF Pending
    <3>3. /\ Len(rest) = Len(down[c]) - n /\ Len(rest) \in Nat \ {0} /\ Len(rest) \in 1..(Len(down[c]) - n)
          /\ n + Len(rest) = Len(down[c])
          BY <1>0, <1>1, <3>2
    <3>4. rest[Len(rest)] = "nul"
          BY <1>1, <3>2, <3>3
    <3>5. ASSUME NEW i \in 1..(Len(rest) - 1) PROVE rest[i] = "out"
      <4>1. i \in 1..(Len(down[c]) - n) /\ n + i \in 1..(Len(down[c]) - 1)
            BY <1>0, <3>3
      <4> QED
        BY <1>1, <3>2, <4>1
    <3> QED
      BY <3>3, <3>4, <3>5
  <2>4. Pending(c)'
    <3>1. CASE Output(down[c])
      <4>1. Printed(c) + Unread(c) = said[c]
        <5>1. down[c][Len(down[c])] = "out"
              BY <1>l, <3>1 DEF Output
        <5> QED
          BY <1>0, <5>1 DEF Pending
      <4>2. Printed(c)' + Unread(c)' = said'[c]
            BY <1>0, <1>m, <1>l, <2>1, <4>1
      <4> QED
        BY <1>2, <2>2, <3>1, <4>2 DEF Pending, Output
    <3>2. CASE ~Output(down[c])
      <4>1. /\ conn[c] \in {"ack", "closed"} /\ ret[c] # "none"
            /\ Printed(c) + Unread(c) = said[c] + 1
            BY <1>0, <3>2 DEF Pending
      <4>2. Printed(c)' + Unread(c)' = said'[c] + 1
            BY <1>0, <1>m, <1>l, <2>1, <4>1
      <4> QED
        BY <1>2, <2>3, <3>2, <4>1, <4>2 DEF Pending
    <3> QED
      BY <3>1, <3>2
  <2> QED
    BY <1>0, <1>2, <1>4, <2>4 DEF IInv, Talking, Gone
<1>5. CASE down[c][n] # "out"
  <2>1. n = Len(down[c]) /\ ~Output(down[c])
        BY <1>t, <1>0, <1>5, PendingPrefix
  <2>2. conn[c] \in {"ack", "closed"} /\ ret[c] # "none" /\ Printed(c) + Unread(c) = said[c] + 1 /\ k = n - 1
        BY <1>0, <2>1 DEF Pending, k
  <2>3. down'[c] = <<>>
    <3>1. n + 1 \in Int /\ Len(down[c]) \in Int /\ Len(down[c]) < n + 1
          BY <1>0, <2>1
    <3> QED
      BY <1>2, <3>1, SubSeqEmpty DEF rest
  <2>4. Complete(c)'
    <3>1. Printed(c)' = said'[c]
          BY <1>0, <1>m, <1>l, <2>1, <2>2 DEF Unread
    <3> QED
      BY <1>2, <2>2, <3>1 DEF Complete
  <2>5. client'[c] = "acking" /\ conn'[c] \in {"ack", "closed"} /\ up' = up
        BY <1>2, <1>5, <2>2
  <2>6. conn[c] = "ack" => up[c] = <<>>
        BY <1>0 DEF IInv, Talking, After
  <2> QED
    BY <1>2, <2>3, <2>4, <2>5, <2>6 DEF Talking, Early, Gone
<1> QED
  BY <1>4, <1>5

LEMMA ReadCodeTalks ==
  ASSUME IInv, NEW c \in Clients, NEW n \in 1..Len(down[c]), ReadCode(c, n), Fits(c)
  PROVE  Talking(c)' /\ Complete(c) /\ told'[c] \in {ret[c], "failed"}
<1>t. TypeOK /\ client[c] = "ended" /\ Talking(c)
      BY DEF IInv, ReadCode
<1>1. Complete(c) /\ conn[c] = "closed" /\ down[c] = <<ret[c]>>
      BY <1>t DEF Talking
<1>2. n = 1 /\ Len(down[c]) = 1 /\ down[c][1] = ret[c]
      BY <1>1
<1>3. down'[c] = <<>>
  <2>1. down'[c] = SubSeq(down[c], 2, 1)
        BY <1>t, <1>2 DEF ReadCode, Take, TypeOK
  <2> QED
    BY <2>1, SubSeqEmpty
<1>4. client'[c] = "done" /\ told'[c] \in {ret[c], "failed"} /\ UNCHANGED <<conn, up, ret, said, shown>>
      BY <1>t, <1>2 DEF ReadCode, Exits, TypeOK, conns
<1> QED
  BY <1>1, <1>3, <1>4 DEF Talking, Early, Gone, After

\* The other steps of systemctl.
LEMMA ClientTalks ==
  ASSUME IInv, NEW c \in Clients, Dial(c) \/ Ack(c) \/ ReadFails(c) \/ Kill(c), Fits(c)
  PROVE  Talking(c)'
<1>t. TypeOK /\ Talking(c) /\ Ending(c)
      BY DEF IInv
<1>1. CASE Dial(c)
  <2>1. /\ conn[c] = "none" /\ down[c] = <<>> /\ said[c] = 0 /\ shown[c] = <<>> /\ client[c] = "idle"
        /\ UNCHANGED <<down, said, shown>>
        BY <1>t, <1>1 DEF Dial, Talking, Ending
  <2>2. Output(down[c])' /\ Printed(c)' + Unread(c)' = said'[c]
    <3>1. Printed(c)' = 0 /\ Unread(c)' = 0
          BY <2>1 DEF Printed, Unread
    <3> QED
      BY <2>1, <3>1 DEF Output
  <2>3. \/ client'[c] = "reading" /\ conn'[c] = "backlog"
        \/ client'[c] = "done" /\ conn'[c] = "none"
        BY <1>t, <1>1, <2>1 DEF Dial, Exits, TypeOK
  <2> QED
    BY <2>1, <2>2, <2>3 DEF Talking, Pending, Early, Gone
<1>2. CASE Ack(c)
  <2>1. /\ client[c] = "acking" /\ Complete(c) /\ down[c] = <<>> /\ UNCHANGED <<down, said, shown, ret, conn>>
        /\ client'[c] \in {"ended", "done"}
        BY <1>t, <1>2 DEF Ack, Exits, Talking, TypeOK, conns
  <2>2. Complete(c)'
        BY <2>1 DEF Complete, Printed
  <2> QED
    BY <2>1, <2>2 DEF Talking, Complete, Early, After, Gone
<1>3. CASE ReadFails(c)
  <2>1. client'[c] = "done" /\ down[c] = <<>> /\ conn[c] = "closed" /\ UNCHANGED <<down, conn>>
        BY <1>t, <1>3 DEF ReadFails, Exits, Closed, TypeOK, conns, streams
  <2> QED
    BY <2>1 DEF Talking, Early, Gone
<1>4. CASE Kill(c)
  <2>1. client'[c] = "killed" /\ down'[c] = <<>> /\ UNCHANGED conn
        BY <1>t, <1>4 DEF Kill, TypeOK, conns
  <2> QED
    BY <2>1 DEF Talking, Early, After, Gone
<1> QED
  BY <1>1, <1>2, <1>3, <1>4

\* The connection goroutine up to the first output.
LEMMA RequestTalks ==
  ASSUME IInv, NEW c \in Clients, Accept(c) \/ ReadRequest(c) \/ Command(c), Fits(c)
  PROVE  Talking(c)'
<1>t. TypeOK /\ Talking(c) /\ Ending(c)
      BY DEF IInv
<1>1. /\ UNCHANGED <<job, client, shown, down, said, ret>>
      /\ conn[c] \in {"backlog", "read", "command"} /\ conn'[c] \in {"read", "command", "closed", "empty", "work"}
      BY <1>t DEF Accept, ReadRequest, Command, Dies, TypeOK, clients, streams
<1>2. client[c] \in {"reading", "done", "killed"} /\ (client[c] = "reading" => Pending(c))
      BY <1>t, <1>1 DEF Talking, Ending, Early
<1>3. Pending(c) => Pending(c)'
      BY <1>1 DEF Pending, Output, Printed, Unread
<1>4. conn'[c] \in {"command", "empty", "work"} /\ up'[c] # <<>> => client[c] \in After
  <2>1. CASE Accept(c)
        BY <1>t, <2>1 DEF Accept, TypeOK
  <2>2. CASE ReadRequest(c)
    <3>1. conn'[c] = "closed" \/ \E n \in 1..Len(up[c]) : n = Len(up[c]) /\ up'[c] = SubSeq(up[c], n + 1, Len(up[c]))
          BY <1>t, <2>2 DEF ReadRequest, Fits, TypeOK
    <3> QED
      BY <1>t, <3>1, RequestTyped
  <2>3. CASE Command(c)
        BY <1>t, <2>3 DEF Command, Dies, Talking, TypeOK, streams
  <2> QED
    BY <2>1, <2>2, <2>3
<1> QED
  BY <1>t, <1>1, <1>2, <1>3, <1>4 DEF Talking, Early, Gone

\* What a write does to what the client has before it.
LEMMA WriteAppends ==
  ASSUME TypeOK, NEW c \in Clients, NEW b, Write(c, b), client[c] = "reading" \/ client[c] = "ended"
  PROVE  /\ down'[c] = Append(down[c], b) /\ Len(down'[c]) = Len(down[c]) + 1 /\ Len(down[c]) \in Nat
         /\ down'[c][Len(down[c]) + 1] = b
         /\ \A i \in 1..Len(down[c]) : down'[c][i] = down[c][i]
<1>1. down[c] \in Seq(Downward)
      BY DEF TypeOK
<1>2. down'[c] = Append(down[c], b)
      BY DEF Write, Gone, TypeOK
<1> QED
  BY <1>1, <1>2, AppendProperties, LenProperties

\* Output, and the 0x00 that ends it.
LEMMA OutputTalks ==
  ASSUME IInv, NEW c \in Clients, Say(c) \/ Finish(c) \/ WriteNul(c), Fits(c)
  PROVE  Talking(c)'
<1>t. TypeOK /\ Talking(c) /\ Ending(c) /\ said[c] \in Nat
      BY DEF IInv, TypeOK
<1>1. conn[c] \in {"work", "empty", "nul"} /\ UNCHANGED <<job, client, shown, up>>
      BY DEF Say, Finish, WriteNul, clients, streams
<1>2. /\ client[c] \in {"reading", "done", "killed"} /\ (up[c] # <<>> => client[c] \in After)
      /\ client[c] = "reading" => Output(down[c]) /\ Printed(c) + Unread(c) = said[c]
      BY <1>t, <1>1 DEF Talking, Ending, Early, Pending
<1>3. /\ Printed(c)' = Printed(c) /\ Printed(c) \in Nat /\ Unread(c) \in Nat
      BY <1>t, <1>1, LenProperties DEF Printed, Unread, TypeOK
<1>4. CASE Finish(c)
  <2>1. conn'[c] = "nul" /\ UNCHANGED <<down, said>>
        BY <1>t, <1>4 DEF Finish, TypeOK, streams
  <2>2. Output(down[c])' = Output(down[c]) /\ Unread(c)' = Unread(c)
        BY <2>1 DEF Output, Unread
  <2> QED
    BY <1>t, <1>1, <1>2, <1>3, <2>1, <2>2 DEF Talking, Pending, Early, Gone
<1>5. CASE (Say(c) \/ WriteNul(c)) /\ client[c] # "reading"
  <2>1. down' = down /\ conn'[c] \in {"work", "empty", "ack"} /\ client[c] \in {"done", "killed"}
        BY <1>t, <1>2, <1>5 DEF Say, WriteNul, Write, Gone, TypeOK
  <2> QED
    BY <1>t, <1>1, <2>1 DEF Talking, Early, After, Gone
<1>6. CASE Say(c) /\ client[c] = "reading"
  <2>1. Write(c, "out") /\ conn'[c] = conn[c] /\ said'[c] = said[c] + 1
        BY <1>t, <1>6 DEF Say, TypeOK
  <2>2. Unread(c)' = Unread(c) + 1 /\ Output(down[c])'
    <3>1. Unread(c)' = Unread(c) + 1
          BY <1>t, <1>6, <2>1, WriteAppends DEF Unread
    <3>2. ASSUME NEW i \in 1..Len(down'[c]) PROVE down'[c][i] = "out"
          BY <1>t, <1>2, <1>6, <2>1, WriteAppends DEF Output
    <3> QED
      BY <3>1, <3>2 DEF Output
  <2>3. Printed(c)' + Unread(c)' = said'[c]
        BY <1>t, <1>2, <1>3, <1>6, <2>1, <2>2
  <2>4. Pending(c)'
        BY <2>2, <2>3 DEF Pending
  <2> QED
    BY <1>1, <1>2, <1>6, <2>1, <2>4 DEF Talking, Early, After, Gone
<1>7. CASE WriteNul(c) /\ client[c] = "reading"
  <2>1. Write(c, "nul") /\ conn'[c] = "ack" /\ UNCHANGED <<said, ret>> /\ ret[c] # "none"
        BY <1>t, <1>7 DEF WriteNul, Ending, TypeOK
  <2>2. /\ Unread(c)' = Unread(c) + 1 /\ down'[c] # <<>> /\ down'[c][Len(down'[c])] = "nul"
        /\ \A i \in 1..(Len(down'[c]) - 1) : down'[c][i] = "out"
    <3>1. Len(down'[c]) = Len(down[c]) + 1 /\ Len(down[c]) \in Nat
          BY <1>t, <1>7, <2>1, WriteAppends
    <3>2. Unread(c)' = Unread(c) + 1
          BY <3>1 DEF Unread
    <3>3. down'[c][Len(down'[c])] = "nul"
          BY <1>t, <1>7, <2>1, <3>1, WriteAppends
    <3>4. ASSUME NEW i \in 1..(Len(down'[c]) - 1) PROVE down'[c][i] = "out"
          BY <1>t, <1>2, <1>7, <2>1, <3>1, WriteAppends DEF Output
    <3>5. down'[c] # <<>>
          BY <3>1
    <3> QED
      BY <3>2, <3>3, <3>4, <3>5
  <2>3. Printed(c)' + Unread(c)' = said'[c] + 1
        BY <1>t, <1>2, <1>3, <1>7, <2>1, <2>2
  <2>4. Pending(c)'
        BY <2>1, <2>2, <2>3 DEF Pending
  <2> QED
    BY <1>1, <1>2, <1>7, <2>1, <2>4 DEF Talking, Early, After, Gone
<1> QED
  BY <1>4, <1>5, <1>6, <1>7

\* The client's 0x00 and the code.
LEMMA CodeTalks ==
  ASSUME IInv, NEW c \in Clients, ReadAck(c) \/ WriteCode(c), Fits(c)
  PROVE  Talking(c)'
<1>t. TypeOK /\ Talking(c) /\ Ending(c)
      BY DEF IInv
<1>1. UNCHANGED <<job, client, shown, said, ret>>
      BY DEF ReadAck, WriteCode, Hang, clients
<1>2. client[c] \in After
      BY <1>t DEF ReadAck, WriteCode, Talking, Gone, After
<1>3. CASE ReadAck(c)
  <2>1. conn'[c] = "code" /\ down' = down /\ conn[c] = "ack"
        BY <1>t, <1>3 DEF ReadAck, TypeOK
  <2>2. Complete(c) => Complete(c)'
        BY <1>1, <2>1 DEF Complete, Printed
  <2> QED
    BY <1>t, <1>1, <1>2, <2>1, <2>2 DEF Talking, Early, After, Gone
<1>4. CASE WriteCode(c)
  <2>1. conn'[c] = "closed" /\ conn[c] = "code" /\ Write(c, ret[c])
        BY <1>t, <1>4 DEF WriteCode, TypeOK
  <2>2. Complete(c) => Complete(c)'
        BY <1>1, <2>1 DEF Complete, Printed
  <2>3. CASE client[c] = "ended"
    <3>1. down[c] = <<>>
          BY <1>t, <2>1, <2>3 DEF Talking
    <3>2. down'[c] = <<ret[c]>>
          BY <1>t, <2>1, <2>3, <3>1 DEF Write, Gone, TypeOK
    <3> QED
      BY <1>t, <1>1, <2>1, <2>2, <2>3, <3>2 DEF Talking, Early, After, Gone
  <2>4. CASE client[c] # "ended"
    <3>1. down' = down /\ client[c] \in {"done", "killed"}
          BY <1>2, <2>1, <2>4 DEF Write, After, Gone
    <3> QED
      BY <1>t, <1>1, <2>1, <3>1 DEF Talking, Early, After, Gone
  <2> QED
    BY <2>3, <2>4
<1> QED
  BY <1>3, <1>4

\* The code, from the end of the command to the user.
LEMMA EndingKept ==
  ASSUME IInv, NEW c \in Clients, Dial(c) \/ ClientReads(c) \/ Kill(c) \/ Serve(c) \/ Hang(c)
  PROVE  Ending(c)'
<1>t. TypeOK /\ Ending(c)
      BY DEF IInv
<1>0. CASE Dial(c)
  <2>1. \/ conn'[c] = "backlog" /\ client'[c] = "reading" /\ told' = told
        \/ conn' = conn /\ client'[c] = "done" /\ told'[c] = "failed"
        BY <1>t, <1>0 DEF Dial, Exits, TypeOK
  <2>2. ret' = ret /\ client[c] = "idle"
        BY <1>0 DEF Dial
  <2> QED
    BY <1>t, <2>1, <2>2 DEF Ending
<1>1. CASE Kill(c)
      BY <1>t, <1>1 DEF Kill, Ending, TypeOK, conns
<1>2. CASE Ack(c) \/ ReadFails(c)
      BY <1>t, <1>2 DEF Ack, ReadFails, Exits, Ending, TypeOK, conns
<1>7. CASE Hang(c)
      BY <1>t, <1>7 DEF Hang, Ending, TypeOK, clients
<1>3. ASSUME NEW n \in 1..Len(down[c]), ReadOutput(c, n) \/ ReadCode(c, n) PROVE Ending(c)'
  <2>1. CASE ReadOutput(c, n)
        BY <1>t, <2>1 DEF ReadOutput, Ending, TypeOK, conns
  <2>2. CASE ReadCode(c, n)
    <3>1. client'[c] = "done" /\ told'[c] \in Codes \cup {"failed"} /\ UNCHANGED <<conn, ret>>
          BY <1>t, <2>2 DEF ReadCode, Exits, TypeOK, conns
    <3> QED
      BY <1>t, <3>1 DEF Ending, Codes
  <2> QED
    BY <1>3, <2>1, <2>2
<1>4. CASE Accept(c) \/ ReadRequest(c) \/ Command(c)
      BY <1>t, <1>4 DEF Accept, ReadRequest, Command, Dies, Ending, TypeOK, clients, streams
<1>5. CASE Finish(c)
  <2>1. PICK o \in Outcomes(c) : ret' = [ret EXCEPT ![c] = o[1]]
        BY <1>5 DEF Finish
  <2>2. o[1] \in Codes
        BY <1>t, OutcomesTyped
  <2> QED
    BY <1>t, <1>5, <2>1, <2>2 DEF Finish, Ending, Codes, TypeOK, clients
<1>6. CASE Say(c) \/ WriteNul(c) \/ ReadAck(c) \/ WriteCode(c)
      BY <1>t, <1>6 DEF Say, WriteNul, ReadAck, WriteCode, Ending, TypeOK, clients
<1> QED
  BY <1>0, <1>1, <1>2, <1>3, <1>4, <1>5, <1>6, <1>7 DEF ClientReads, Serve

\* A command that hangs is one that still works, to the client.
LEMMA HangTalks ==
  ASSUME IInv, NEW c \in Clients, Hang(c), Fits(c)
  PROVE  Talking(c)'
<1>t. TypeOK /\ Talking(c)
      BY DEF IInv
<1>1. conn[c] = "work" /\ conn'[c] = "stuck" /\ UNCHANGED <<client, shown, up, down, said, ret>>
      BY <1>t DEF Hang, TypeOK, clients, streams
<1>2. client[c] \in {"idle", "reading", "done", "killed"}
      BY <1>t, <1>1 DEF Talking, Early
<1>3. Pending(c) => Pending(c)'
      BY <1>1 DEF Pending, Output, Printed, Unread
<1> QED
  BY <1>t, <1>1, <1>2, <1>3 DEF Talking, Early, Gone

LEMMA StepTalks ==
  ASSUME IInv, NEW c \in Clients, Dial(c) \/ ClientReads(c) \/ Kill(c) \/ Serve(c) \/ Hang(c), Fits(c)
  PROVE  Talking(c)'
  BY ClientTalks, ReadOutputTalks, ReadCodeTalks, RequestTalks, OutputTalks, CodeTalks, HangTalks DEF ClientReads, Serve

------------------------------------------------------------------------------
(* The invariant.                                                           *)

LEMMA InitIInv == Init => IInv
<1>1. SUFFICES ASSUME Init, NEW c \in Clients PROVE Ending(c) /\ Talking(c)
      BY InitTypeOK DEF IInv
<1> QED
  BY <1>1 DEF Init, Ending, Talking, Early, Gone

LEMMA StepIInv == IInv /\ [Next]_vars => IInv'
<1>1. SUFFICES ASSUME IInv, [Next]_vars PROVE IInv'
      OBVIOUS
<1>t. TypeOK /\ \A c \in Clients : Ending(c) /\ (Fits(c) => Talking(c))
      BY <1>1 DEF IInv
<1>2. ASSUME NEW c \in Clients, Dial(c) \/ ClientReads(c) \/ Kill(c) \/ Serve(c) \/ Hang(c) PROVE IInv'
  <2>1. TypeOK'
        BY <1>t, <1>2, ClientTyped, ServeTyped, HangTyped
  <2>2. ASSUME NEW x \in Clients PROVE Ending(x)' /\ (Fits(x)' => Talking(x)')
    <3>1. CASE x = c
      <4>1. job' = job
            BY <1>2 DEF Dial, ClientReads, Ack, ReadFails, ReadOutput, ReadCode, Kill, Serve, Accept, ReadRequest,
                        Command, Dies, Say, Finish, WriteNul, ReadAck, WriteCode, Hang, clients
      <4>2. Fits(c)' = Fits(c)
            BY <4>1 DEF Fits
      <4> QED
        BY <1>1, <1>2, <3>1, <4>2, EndingKept, StepTalks
    <3>2. CASE x # c
          BY <1>t, <1>2, <3>2, OthersApart, ApartKeeps
    <3> QED
      BY <3>1, <3>2
  <2> QED
    BY <2>1, <2>2 DEF IInv
<1>3. CASE BootType \/ BootValue \/ Raise \/ Shutdown \/ UNCHANGED vars
  <2>1. TypeOK'
        BY <1>t, <1>3, SystemTyped
  <2>2. \A x \in Clients : Ending(x)' /\ (Fits(x)' => Talking(x)')
        BY <1>t, <1>3, SystemApart, ApartKeeps
  <2> QED
    BY <2>1, <2>2 DEF IInv
<1> QED
  BY <1>1, <1>2, <1>3 DEF Next

\* The two ends of every connection are with each other where the protocol has
\* them (systemctl/main.go:41-75, main.go:176-213).
THEOREM ControlInv == Spec => []IInv
<1>1. IInv /\ [Next]_vars => IInv'
      BY StepIInv
<1> QED
  BY <1>1, InitIInv, PTL DEF Spec

\* Every variable of the sockets keeps its type, for any clients and requests.
THEOREM ControlTypeOK == Spec => []TypeOK
<1>1. IInv => TypeOK
      BY DEF IInv
<1> QED
  BY <1>1, ControlInv, PTL

\* The exit code is on its way only once the client has asked for it, so that it
\* never comes with output in one Read (main.go:199-208).
THEOREM ControlCodeAfterReady == Spec => []CodeAfterReady
<1>1. IInv => CodeAfterReady
  <2>1. SUFFICES ASSUME IInv, NEW c \in Clients, Fits(c), NEW i \in DOMAIN down[c], down[c][i] \in Codes
                 PROVE  client[c] \in {"ended", "killed"}
        BY DEF CodeAfterReady, Fits
  <2>2. TypeOK /\ Talking(c)
        BY <2>1 DEF IInv
  <2>3. i \in 1..Len(down[c]) /\ down[c] # <<>>
    <3>1. down[c] \in Seq(Downward)
          BY <2>2 DEF TypeOK
    <3> QED
      BY <2>1, <3>1, LenProperties
  <2>4. ~Pending(c)
        BY <2>1, <2>2, <2>3, PendingPrefix
  <2> QED
    BY <2>2, <2>3, <2>4 DEF Talking, Gone, TypeOK
<1> QED
  BY <1>1, ControlInv, PTL

\* Beyond "lock" is only the goroutine that has shutdownLock, and a process that
\* has exited had one of them in os.Exit.
LockedIn ==
  /\ stage \in [Callers -> ShutdownPc]
  /\ \A g \in Callers : stage[g] \notin {"none", "lock"} => lock = g
  /\ life = "exited" => \E g \in Callers : stage[g] = "exit"

\* The exit of the process never cuts a StopAll off: of the goroutines that meet
\* in shutdown() only one gets beyond shutdownLock (shutdown.go:15), and it is the
\* one that stops the services.
THEOREM ControlExitsStopped == Spec => []ExitsStopped
<1>1. Init => LockedIn
      BY DEF Init, LockedIn, ShutdownPc
<1>2. LockedIn /\ [Next]_vars => LockedIn'
  <2>1. SUFFICES ASSUME LockedIn, [Next]_vars PROVE LockedIn'
        OBVIOUS
  <2>2. ASSUME UNCHANGED <<stage, lock>>, life' # "exited" \/ life' = life PROVE LockedIn'
        BY <2>1, <2>2 DEF LockedIn
  <2>3. ASSUME NEW c \in Clients, Dial(c) \/ ClientReads(c) \/ Kill(c) \/ Serve(c) \/ Hang(c) PROVE LockedIn'
    <3>1. UNCHANGED <<stage, lock>>
          BY <2>3 DEF Dial, ClientReads, Ack, ReadFails, ReadOutput, ReadCode, Kill, Serve, Accept, ReadRequest,
                      Command, Dies, Say, Finish, WriteNul, ReadAck, WriteCode, Hang
    <3>2. life' # "exited" \/ life' = life
          BY <2>3 DEF Dial, ClientReads, Ack, ReadFails, ReadOutput, ReadCode, Kill, Serve, Accept, ReadRequest,
                      Command, Dies, Say, Finish, WriteNul, ReadAck, WriteCode, Hang
    <3> QED
      BY <2>2, <3>1, <3>2
  <2>4. CASE BootType \/ BootValue \/ Raise \/ UNCHANGED vars
        BY <2>2, <2>4 DEF BootType, BootValue, Raise, vars
  <2>5. CASE Handle \/ AcceptFails
    <3>1. PICK g \in Callers : stage[g] = "none" /\ stage' = [stage EXCEPT ![g] = "lock"]
          BY <2>5 DEF Handle, AcceptFails, Reaches, Heard, Accepting, Callers
    <3>2. UNCHANGED <<lock, life>>
          BY <2>5 DEF Handle, AcceptFails
    <3> QED
      BY <2>1, <3>1, <3>2 DEF LockedIn, ShutdownPc
  <2>6. ASSUME NEW g \in Callers, ShutdownOf(g) PROVE LockedIn'
    <3>1. CASE TakeLock(g)
      <4>1. stage' = [stage EXCEPT ![g] = "close"] /\ lock = "free" /\ lock' = g /\ life' = life
            BY <3>1 DEF TakeLock, Reaches
      <4>2. \A x \in Callers : stage[x] \in {"none", "lock"}
            BY <2>1, <4>1 DEF LockedIn, Callers
      <4> QED
        BY <2>1, <4>1, <4>2 DEF LockedIn, ShutdownPc
    <3>2. CASE CloseSocket(g) \/ Stopped(g) \/ StopHangs(g) \/ (StopServices(g) /\ d = "set")
      <4>1. PICK s \in ShutdownPc : stage' = [stage EXCEPT ![g] = s]
            BY <3>2 DEF CloseSocket, Stopped, StopHangs, StopServices, Reaches, ShutdownPc
      <4>2. stage[g] \in {"close", "stop", "stopping"} /\ lock' = lock /\ life' = life /\ life = "up"
            BY <3>2 DEF CloseSocket, Stopped, StopHangs, StopServices, Up
      <4> QED
        BY <2>1, <4>1, <4>2 DEF LockedIn
    <3>3. CASE StopServices(g) /\ d # "set"
          BY <2>2, <3>3 DEF StopServices, Dies
    <3>4. CASE ExitProcess(g)
          BY <2>1, <3>4 DEF ExitProcess, Dies, LockedIn
    <3> QED
      BY <2>6, <3>1, <3>2, <3>3, <3>4 DEF ShutdownOf
  <2> QED
    BY <2>1, <2>3, <2>4, <2>5, <2>6 DEF Next, Shutdown
<1>3. LockedIn => ExitsStopped
      BY DEF LockedIn, ExitsStopped
<1> QED
  BY <1>1, <1>2, <1>3, PTL DEF Spec

------------------------------------------------------------------------------
(* The connections implement Exchange.                                      *)

\* Nothing a user can tell has changed for c.
Same(c) == told'[c] = told[c] /\ said'[c] = said[c] /\ ret'[c] = ret[c] /\ Printed(c)' = Printed(c)

\* What a client prints has been said.
LEMMA ReadBounded ==
  ASSUME IInv, NEW c \in Clients, NEW n \in 1..Len(down[c]), ReadOutput(c, n), Fits(c)
  PROVE  Printed(c)' <= said[c]
<1>t. TypeOK /\ TypeOK' /\ said' = said
      BY ReadTyped DEF IInv, ReadOutput, conns
<1>1. Printed(c)' \in Nat /\ Unread(c)' \in Nat /\ said[c] \in Nat
      BY <1>t, LenProperties DEF Printed, Unread, TypeOK
<1>2. client'[c] \in {"reading", "acking"}
      BY <1>t DEF ReadOutput, TypeOK
<1>3. CASE client'[c] = "acking"
  <2>1. Complete(c)'
        BY <1>3, ReadOutputTalks DEF Talking
  <2> QED
    BY <1>t, <1>1, <2>1 DEF Complete
<1>4. CASE client'[c] = "reading"
  <2>1. Pending(c)'
        BY <1>4, ReadOutputTalks DEF Talking
  <2>2. down'[c] # <<>> => Unread(c)' # 0
    <3>1. down'[c] \in Seq(Downward)
          BY <1>t DEF TypeOK
    <3> QED
      BY <3>1, EmptySeq DEF Unread
  <2> QED
    BY <1>t, <1>1, <2>1, <2>2 DEF Pending
<1> QED
  BY <1>2, <1>3, <1>4

LEMMA ShownPrinted ==
  /\ Shown = [c \in Clients |-> IF Fits(c) THEN Printed(c) ELSE 0]
  /\ Shown' = [c \in Clients |-> IF Fits(c)' THEN Printed(c)' ELSE 0]
  BY DEF Shown, Printed

LEMMA Still ==
  ASSUME job' = job, \A c \in Clients : Fits(c) => Same(c)
  PROVE  UNCHANGED <<Told, Said, Over, Shown>>
<1>1. \A c \in Clients : Fits(c)' = Fits(c)
      BY DEF Fits
<1>2. Told' = Told /\ Said' = Said /\ Over' = Over
      BY <1>1 DEF Told, Said, Over, Same
<1>3. Shown' = Shown
      BY <1>1, ShownPrinted DEF Same
<1> QED
  BY <1>2, <1>3

LEMMA SameIfApart ==
  ASSUME NEW c \in Clients, Apart(c)
  PROVE  Same(c)
  BY DEF Apart, Same, Printed

LEMMA InitTalk == Init => Talk!Init
<1>1. SUFFICES ASSUME Init PROVE Talk!Init
      OBVIOUS
<1>2. \A c \in Clients : told[c] = "none" /\ said[c] = 0 /\ ret[c] = "none" /\ Len(shown[c]) = 0
      BY <1>1 DEF Init
<1> QED
  BY <1>2 DEF Talk!Init, Told, Said, Over, Shown

\* A step of one connection, as Exchange sees it.
LEMMA StepTalk ==
  ASSUME IInv, NEW c \in Clients, Dial(c) \/ ClientReads(c) \/ Kill(c) \/ Serve(c) \/ Hang(c)
  PROVE  Talk!Next \/ UNCHANGED <<Told, Said, Over, Shown>>
<1>t. TypeOK /\ Ending(c) /\ (Fits(c) => Talking(c))
      BY DEF IInv
<1>j. job' = job /\ \A x \in Clients : Fits(x)' = Fits(x)
  <2>1. job' = job
        BY DEF Dial, ClientReads, Ack, ReadFails, ReadOutput, ReadCode, Kill, Serve, Accept, ReadRequest,
               Command, Dies, Say, Finish, WriteNul, ReadAck, WriteCode, Hang, clients
  <2> QED
    BY <2>1 DEF Fits
<1>o. \A x \in Clients \ {c} : Same(x)
      BY <1>t, OthersApart, SameIfApart
<1>q. Same(c) \/ ~Fits(c) => UNCHANGED <<Told, Said, Over, Shown>>
      BY <1>j, <1>o, Still
<1>1. ASSUME Fits(c), told[c] = "none", told'[c] = "failed", UNCHANGED <<said, ret, shown>> PROVE Talk!Fail(c)
  <2>1. Told' = [Told EXCEPT ![c] = "failed"]
        BY <1>j, <1>o, <1>1 DEF Told, Same
  <2>2. UNCHANGED <<Said, Over, Shown>> /\ Told[c] = "none"
        BY <1>j, <1>1 DEF Said, Over, Shown, Told
  <2> QED
    BY <2>1, <2>2 DEF Talk!Fail
<1>2. CASE (Dial(c) \/ Ack(c) \/ ReadFails(c)) /\ Fits(c)
  <2>1. told[c] = "none" /\ UNCHANGED <<said, ret, shown>>
        BY <1>t, <1>2 DEF Dial, Ack, ReadFails, Ending, TypeOK, conns
  <2>2. told'[c] = "failed" \/ told' = told
        BY <1>t, <1>2 DEF Dial, Ack, ReadFails, Exits, TypeOK
  <2>3. CASE told' = told
        BY <1>q, <2>1, <2>3 DEF Same, Printed
  <2> QED
    BY <1>1, <1>2, <2>1, <2>2, <2>3 DEF Talk!Next
<1>3. CASE Fits(c) /\ \E n \in 1..Len(down[c]) : ReadOutput(c, n)
  <2>1. PICK n \in 1..Len(down[c]) : ReadOutput(c, n)
        BY <1>3
  <2>2. /\ UNCHANGED <<told, said, ret>> /\ told[c] = "none"
        /\ client'[c] \in {"reading", "acking"}
        BY <1>t, <2>1 DEF ReadOutput, Ending, TypeOK, conns
  <2>3. PICK k \in 0..n : Printed(c)' = Printed(c) + k
        BY <1>t, <2>1, ReadPrints
  <2>4. Printed(c) \in Nat /\ said[c] \in Nat
        BY <1>t, LenProperties DEF Printed, TypeOK
  <2>5. Printed(c)' <= said[c]
        BY <1>3, <2>1, <2>2, ReadBounded
  <2>6. CASE k = 0
    <3>1. Printed(c)' = Printed(c)
          BY <2>3, <2>4, <2>6
    <3> QED
      BY <1>q, <2>2, <3>1 DEF Same
  <2>7. CASE k # 0
    <3>1. k \in 1..said[c]
          BY <2>3, <2>4, <2>5, <2>7
    <3>2. Shown' = [Shown EXCEPT ![c] = @ + k]
          BY <1>j, <1>o, <1>3, <2>3, ShownPrinted DEF Same
    <3>3. UNCHANGED <<Said, Over, Told>> /\ Told[c] = "none" /\ Said[c] = said[c]
          BY <1>j, <1>3, <2>2 DEF Said, Over, Told
    <3>4. Shown[c] + k <= Said[c]
          BY <1>3, <2>3, <2>5, <3>3, ShownPrinted
    <3>5. Talk!Show(c, k)
          BY <3>2, <3>3, <3>4 DEF Talk!Show
    <3> QED
      BY <3>1, <3>3, <3>5 DEF Talk!Next
  <2> QED
    BY <2>6, <2>7
<1>4. CASE Fits(c) /\ \E n \in 1..Len(down[c]) : ReadCode(c, n)
  <2>1. PICK n \in 1..Len(down[c]) : ReadCode(c, n)
        BY <1>4
  <2>2. UNCHANGED <<said, ret, shown>> /\ told[c] = "none" /\ told' = [told EXCEPT ![c] = told'[c]]
        BY <1>t, <2>1 DEF ReadCode, Exits, Ending, TypeOK, conns
  <2>3. Complete(c) /\ told'[c] \in {ret[c], "failed"}
        BY <1>4, <2>1, ReadCodeTalks
  <2>4. CASE told'[c] = ret[c]
    <3>1. Told' = [Told EXCEPT ![c] = Over[c]]
          BY <1>j, <1>o, <1>4, <2>4 DEF Told, Over, Same
    <3>2. UNCHANGED <<Said, Over, Shown>>
          BY <1>j, <2>2 DEF Said, Over, Shown
    <3>3. Told[c] = "none" /\ Over[c] # "none"
          BY <1>4, <2>2, <2>3 DEF Told, Over, Complete
    <3>4. Shown[c] = Said[c]
          BY <1>4, <2>3, ShownPrinted DEF Said, Complete
    <3> QED
      BY <3>1, <3>2, <3>3, <3>4 DEF Talk!Tell, Talk!Next
  <2> QED
    BY <1>1, <1>4, <2>2, <2>3, <2>4 DEF Talk!Next
<1>5. CASE Kill(c) \/ Accept(c) \/ ReadRequest(c) \/ Command(c) \/ WriteNul(c) \/ ReadAck(c) \/ WriteCode(c) \/ Hang(c)
  <2>1. UNCHANGED <<told, said, ret, shown>>
        BY <1>5 DEF Hang, Kill, Accept, ReadRequest, Command, Dies, WriteNul, ReadAck, WriteCode, clients, conns
  <2> QED
    BY <1>q, <2>1 DEF Same, Printed
<1>6. CASE Say(c) /\ Fits(c)
  <2>1. UNCHANGED <<told, ret, shown>> /\ ret[c] = "none" /\ said' = [said EXCEPT ![c] = @ + 1]
        BY <1>t, <1>6 DEF Say, Ending, clients
  <2>2. Said' = [Said EXCEPT ![c] = @ + 1]
        BY <1>t, <1>j, <1>6, <2>1 DEF Said, TypeOK
  <2>3. UNCHANGED <<Told, Over, Shown>> /\ Over[c] = "none"
        BY <1>j, <1>6, <2>1 DEF Told, Over, Shown
  <2> QED
    BY <2>2, <2>3 DEF Talk!Say, Talk!Next
<1>7. CASE Finish(c) /\ Fits(c)
  <2>1. PICK o \in Outcomes(c) : ret' = [ret EXCEPT ![c] = o[1]]
        BY <1>7 DEF Finish
  <2>2. UNCHANGED <<told, said, shown>> /\ ret[c] = "none" /\ o[1] \in Codes
        BY <1>t, <1>7, OutcomesTyped DEF Finish, Ending, clients
  <2>3. Over' = [Over EXCEPT ![c] = o[1]]
        BY <1>t, <1>j, <1>7, <2>1 DEF Over, TypeOK
  <2>4. UNCHANGED <<Told, Said, Shown>> /\ Over[c] = "none"
        BY <1>j, <1>7, <2>2 DEF Told, Said, Shown, Over
  <2> QED
    BY <2>2, <2>3, <2>4 DEF Talk!Finish, Talk!Next
<1> QED
  BY <1>2, <1>3, <1>4, <1>5, <1>6, <1>7, <1>q DEF ClientReads, Serve

\* The sockets implement what Exchange promises: output in order and once, and
\* the exit code after the last of it (comments at main.go:28-32).
THEOREM ControlImplementsExchange == Spec => ImplementsExchange
<1>1. Init => Talk!Init
      BY InitTalk
<1>2. IInv /\ [Next]_vars => [Talk!Next]_(Talk!exchangeVars)
  <2>1. SUFFICES ASSUME IInv, [Next]_vars PROVE Talk!Next \/ UNCHANGED <<Told, Said, Over, Shown>>
        BY DEF Talk!exchangeVars
  <2>2. CASE BootType \/ BootValue \/ Raise \/ Shutdown \/ UNCHANGED vars
    <3>1. TypeOK
          BY <2>1 DEF IInv
    <3>2. \A c \in Clients : Same(c)
          BY <2>2, <3>1, SystemApart, SameIfApart
    <3>3. job' = job
          BY <2>2 DEF BootType, BootValue, Raise, Shutdown, Handle, CloseSocket, AcceptFails, ShutdownOf, TakeLock, StopServices, Stopped,
         StopHangs, ExitProcess, Reaches,
                      Dies, vars, clients
    <3> QED
      BY <3>2, <3>3, Still
  <2> QED
    BY <2>1, <2>2, StepTalk DEF Next
<1> QED
  BY <1>1, <1>2, ControlInv, PTL DEF Spec, ImplementsExchange, Talk!Spec
==============================================================================
