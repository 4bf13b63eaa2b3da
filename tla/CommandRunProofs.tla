-------------------------- MODULE CommandRunProofs ---------------------------
(***************************************************************************)
(* For every limit and every number of bytes: the outcome of a command is  *)
(* what happened to it.  The invariant says where the bytes of a stream    *)
(* are: while the buffer has not overflowed, the buffer followed by the    *)
(* pipe is everything the command wrote; a goroutine has stopped copying   *)
(* only at an overflow, at an empty pipe, or when the exit is no clean one *)
(* any more; and whatever the watcher and the buffers report of reqCtx,    *)
(* its end, they report after it.                                          *)
(***************************************************************************)
EXTENDS CommandRun, SequenceTheorems, TLAPS

TypeOK ==
    /\ process \in {"new", "unstarted", "running", "exited", "failed", "killed", "abandoned"}
    /\ watch \in {"watching", "interrupted", "refused", "done"}
    /\ sent \in [Streams -> Nat]
    /\ pipe \in [Streams -> Seq(Nat)] /\ buf \in [Streams -> Seq(Nat)]
    /\ exceeded \in [Streams -> BOOLEAN] /\ copying \in [Streams -> BOOLEAN]
    /\ ctx \in {"live", "canceled", "deadline", "overflow"}
    /\ outcome \in {"none", "success", "limit", "timeout", "canceled", "failed"}

\* b followed by p is the first n bytes, in order.
Ordered(b, p, n) ==
    /\ Len(b) + Len(p) = n
    /\ \A i \in 1 .. Len(b) : b[i] = i
    /\ \A i \in 1 .. Len(p) : p[i] = Len(b) + i

Intact(s) == Ordered(buf[s], pipe[s], sent[s])

\* What a step preserves.
IInv ==
    /\ TypeOK /\ CommandOutcomeTruthful
    /\ \A s \in Streams :
          /\ Len(buf[s]) <= OutputLimit
          /\ exceeded[s] => sent[s] > OutputLimit /\ ctx # "live"
          /\ ~exceeded[s] => Intact(s)
          /\ ~copying[s] => \/ exceeded[s] \/ process \in {"failed", "killed", "abandoned"}
                            \/ process = "exited" /\ pipe[s] = <<>>
    /\ watch = "interrupted" => ctx # "live"
    /\ ctx = "overflow" => \E s \in Streams : exceeded[s]
    /\ outcome # "none" => /\ process \notin {"new", "running"}
                           /\ process = "unstarted" \/ watch # "watching"
                           /\ process \in Over => \A s \in Streams : ~copying[s]

\* The limit is a number of bytes.
Limits == OutputLimit \in Nat /\ MaxSent \in Nat

\* The initial state, before the command wrote anything.
LEMMA InitInv == ASSUME Limits, Init PROVE IInv
  BY SMTT(60) DEF Limits, Init, IInv, TypeOK, CommandOutcomeTruthful, Intact, Ordered, Streams, Over

\* One byte more in the pipe.
LEMMA Appended == ASSUME NEW b \in Seq(Nat), NEW p \in Seq(Nat), NEW n \in Nat, Ordered(b, p, n)
                  PROVE  Ordered(b, Append(p, n + 1), n + 1)
<1>1. /\ Len(Append(p, n + 1)) = Len(p) + 1
      /\ \A i \in 1 .. Len(p) : Append(p, n + 1)[i] = p[i]
      /\ Append(p, n + 1)[Len(p) + 1] = n + 1
  BY AppendProperties
<1> QED BY <1>1, LenProperties, SMTT(60) DEF Ordered

\* The arithmetic of moving n of l bytes behind k others.
LEMMA Sums == ASSUME NEW k \in Nat, NEW l \in Nat, NEW n \in 0 .. l
              PROVE  /\ (k + n) + (l - n) = k + l
                     /\ \A i \in 1 .. k + n : i <= k \/ i > k
  BY SMTT(30)

\* The two parts of a pipe that is read up to its n-th byte.
LEMMA Cut == ASSUME NEW p \in Seq(Nat), NEW n \in 0 .. Len(p)
             PROVE  LET c == SubSeq(p, 1, n)
                        r == SubSeq(p, n + 1, Len(p))
                    IN /\ c \in Seq(Nat) /\ Len(c) = n
                       /\ r \in Seq(Nat) /\ Len(r) = Len(p) - n
                       /\ \A i \in 1 .. n : c[i] = p[i]
                       /\ \A i \in 1 .. Len(p) - n : r[i] = p[n + i]
<1>1. Len(p) \in Nat /\ n \in Nat /\ \A i \in 1 .. Len(p) : p[i] \in Nat
  BY LenProperties, ElementOfSeq
<1>2. /\ SubSeq(p, 1, n) \in Seq(Nat)
      /\ Len(SubSeq(p, 1, n)) = IF 1 <= n THEN n - 1 + 1 ELSE 0
      /\ \A i \in 1 .. n - 1 + 1 : SubSeq(p, 1, n)[i] = p[1 + i - 1]
  BY <1>1, SubSeqProperties, SMTT(30)
<1>3. /\ SubSeq(p, n + 1, Len(p)) \in Seq(Nat)
      /\ Len(SubSeq(p, n + 1, Len(p))) = IF n + 1 <= Len(p) THEN Len(p) - (n + 1) + 1 ELSE 0
      /\ \A i \in 1 .. Len(p) - (n + 1) + 1 : SubSeq(p, n + 1, Len(p))[i] = p[n + 1 + i - 1]
  BY <1>1, SubSeqProperties, SMTT(30)
<1> QED BY <1>1, <1>2, <1>3, SMTT(60)

\* What a goroutine moves from a pipe to a buffer stays in order.
LEMMA Moved == ASSUME NEW b \in Seq(Nat), NEW p \in Seq(Nat), NEW n \in 0 .. Len(p),
                      NEW m \in Nat, Ordered(b, p, m)
               PROVE  Ordered(b \o SubSeq(p, 1, n), SubSeq(p, n + 1, Len(p)), m)
<1> DEFINE c == SubSeq(p, 1, n)
           r == SubSeq(p, n + 1, Len(p))
<1>1. Len(b) \in Nat /\ Len(p) \in Nat /\ n \in Nat
  BY LenProperties
<1>2. /\ c \in Seq(Nat) /\ Len(c) = n /\ Len(r) = Len(p) - n
      /\ \A i \in 1 .. n : c[i] = p[i]
      /\ \A i \in 1 .. Len(p) - n : r[i] = p[n + i]
  BY Cut
<1> HIDE DEF c, r
<1>3. /\ Len(b \o c) = Len(b) + n
      /\ \A i \in 1 .. Len(b) + n : (b \o c)[i] = IF i <= Len(b) THEN b[i] ELSE c[i - Len(b)]
  BY <1>2, ConcatProperties
<1>4. ASSUME NEW i \in 1 .. Len(b) + n PROVE (b \o c)[i] = i
  <2>1. CASE i <= Len(b)
    BY <1>1, <1>3, <2>1, SMTT(30) DEF Ordered
  <2>2. CASE i > Len(b)
    <3> DEFINE j == i - Len(b)
    <3>1. j \in 1 .. n /\ j \in 1 .. Len(p)
      BY <1>1, <2>2, SMTT(30)
    <3>2. (b \o c)[i] = c[j]
      BY <1>1, <1>3, <2>2, SMTT(30)
    <3>3. c[j] = Len(b) + j
      BY <1>2, <3>1 DEF Ordered
    <3> QED BY <1>1, <3>1, <3>2, <3>3, SMTT(30)
  <2> QED BY <1>1, <2>1, <2>2, Sums
<1>5. \A i \in 1 .. Len(p) - n : r[i] = Len(b) + n + i
  BY <1>1, <1>2, SMTT(60) DEF Ordered
<1>6. Ordered(b \o c, r, m)
  <2> DEFINE d == b \o c
  <2>1. Len(d) = Len(b) + n /\ \A i \in 1 .. Len(b) + n : d[i] = i
    BY <1>3, <1>4
  <2> HIDE DEF d
  <2>2. Len(d) + Len(r) = m
    <3>1. (Len(b) + n) + (Len(p) - n) = Len(b) + Len(p)
      BY <1>1, Sums
    <3>2. Len(d) + Len(r) = (Len(b) + n) + (Len(p) - n)
      BY <1>2, <2>1
    <3> QED BY <3>1, <3>2 DEF Ordered
  <2>3. Ordered(d, r, m)
    BY <1>2, <1>5, <2>1, <2>2 DEF Ordered
  <2> QED BY <2>3 DEF d
<1> QED BY <1>6 DEF c, r

\* The command writes a byte.
LEMMA SendInv == ASSUME Limits, IInv, NEW s \in Streams, Send(s) PROVE IInv'
<1> USE DEF Limits, IInv, TypeOK, Send
<1>1. /\ sent'[s] = sent[s] + 1 /\ pipe'[s] = Append(pipe[s], sent[s] + 1)
      /\ outcome = "none"
      /\ \A t \in Streams : t # s => sent'[t] = sent[t] /\ pipe'[t] = pipe[t]
  BY SMTT(60)
<1>2. TypeOK'
  BY AppendProperties, SMTT(60)
<1>3. ASSUME NEW t \in Streams, ~exceeded[t] PROVE Intact(t)'
  <2>1. CASE t = s
    BY <1>1, <1>3, <2>1, Appended DEF Intact
  <2>2. CASE t # s
    BY <1>1, <1>3, <2>2 DEF Intact
  <2> QED BY <2>1, <2>2
<1> QED BY <1>1, <1>2, <1>3, SMTT(60) DEF CommandOutcomeTruthful

\* A copying goroutine moves bytes from the pipe to the buffer, up to the limit.
LEMMA CopyInv == ASSUME Limits, IInv, NEW s \in Streams, NEW n \in 1 .. Len(pipe[s]), Copy(s, n)
                 PROVE  IInv'
<1> DEFINE room == OutputLimit - Len(buf[s])
           taken == IF n <= room THEN n ELSE room
<1> USE DEF Limits, IInv, TypeOK
<1>1. /\ copying[s] /\ outcome = "none" /\ outcome' = "none" /\ sent' = sent
      /\ buf'[s] = buf[s] \o SubSeq(pipe[s], 1, taken)
      /\ pipe'[s] = SubSeq(pipe[s], n + 1, Len(pipe[s]))
      /\ \A t \in Streams : t # s => buf'[t] = buf[t] /\ pipe'[t] = pipe[t]
  BY SMTT(60) DEF Copy
<1>2. /\ taken \in 0 .. Len(pipe[s]) /\ taken <= room /\ room \in Nat
      /\ Len(buf[s]) + taken <= OutputLimit
  BY LenProperties, SMTT(60)
<1>3. /\ buf' \in [Streams -> Seq(Nat)] /\ pipe' \in [Streams -> Seq(Nat)]
      /\ Len(buf'[s]) = Len(buf[s]) + taken
  <2>1. Len(pipe[s]) \in Nat /\ n \in 0 .. Len(pipe[s]) /\ pipe[s] \in Seq(Nat)
    BY LenProperties
  <2>2. /\ SubSeq(pipe[s], 1, taken) \in Seq(Nat) /\ Len(SubSeq(pipe[s], 1, taken)) = taken
        /\ SubSeq(pipe[s], n + 1, Len(pipe[s])) \in Seq(Nat)
    <3>1. taken \in 0 .. Len(pipe[s])
      BY <1>2
    <3> HIDE DEF taken
    <3> QED BY <2>1, <3>1, Cut
  <2>3. /\ buf[s] \o SubSeq(pipe[s], 1, taken) \in Seq(Nat)
        /\ Len(buf[s] \o SubSeq(pipe[s], 1, taken)) = Len(buf[s]) + taken
    BY <2>2, ConcatProperties
  <2> QED BY <1>1, <2>2, <2>3, SMTT(60) DEF Copy
<1>4. CASE n <= room
  <2>1. UNCHANGED <<process, watch, exceeded, copying, ctx>>
    BY <1>4, <1>2 DEF Copy
  <2>2. ASSUME ~exceeded[s] PROVE Intact(s)'
    <3>1. taken = n /\ n \in 0 .. Len(pipe[s])
      BY <1>4, LenProperties
    <3>2. Ordered(buf[s] \o SubSeq(pipe[s], 1, n), SubSeq(pipe[s], n + 1, Len(pipe[s])), sent[s])
      BY <2>2, <3>1, Moved DEF Intact
    <3> QED BY <1>1, <3>1, <3>2 DEF Intact
  <2>3. \A t \in Streams : ~exceeded[t] => Intact(t)'
    BY <1>1, <2>2 DEF Intact
  <2>4. \A t \in Streams : ~copying[t] => pipe'[t] = pipe[t]
    BY <1>1
  <2>5. TypeOK' /\ CommandOutcomeTruthful'
    BY <1>1, <1>3, <2>1 DEF CommandOutcomeTruthful
  <2>6. \A t \in Streams : Len(buf'[t]) <= OutputLimit
    BY <1>1, <1>2, <1>3
  <2> QED BY <1>1, <2>1, <2>3, <2>4, <2>5, <2>6
<1>5. CASE n > room
  <2>1. /\ exceeded' = [exceeded EXCEPT ![s] = TRUE]
        /\ copying' = [copying EXCEPT ![s] = FALSE]
        /\ End("overflow") /\ UNCHANGED <<process, watch>>
    BY <1>5, <1>2 DEF Copy
  <2>2. /\ ctx' \in {"live", "canceled", "deadline", "overflow"} /\ ctx' # "live"
        /\ ctx' = IF ctx = "live" THEN "overflow" ELSE ctx
    BY <2>1, SMTT(60) DEF End
  <2>3. ~exceeded[s] => sent[s] > OutputLimit
    BY <1>5, <1>2, LenProperties, SMTT(60) DEF Intact, Ordered
  <2>4. \A t \in Streams : ~exceeded'[t] => t # s /\ ~exceeded[t] /\ Intact(t)'
    BY <1>1, <2>1 DEF Intact
  <2>5. /\ \A t \in Streams : t # s => copying'[t] = copying[t] /\ exceeded'[t] = exceeded[t]
        /\ exceeded'[s]
    BY <2>1
  <2>6. TypeOK'
    BY <1>1, <1>3, <2>1, <2>2, SMTT(60)
  <2>7. \A t \in Streams : Len(buf'[t]) <= OutputLimit
    BY <1>1, <1>2, <1>3
  <2>8. \A t \in Streams : exceeded'[t] => sent'[t] > OutputLimit /\ ctx' # "live"
    BY <1>1, <2>2, <2>3, <2>5
  <2>9. \A t \in Streams : ~copying'[t] =>
            \/ exceeded'[t] \/ process' \in {"failed", "killed", "abandoned"}
            \/ process' = "exited" /\ pipe'[t] = <<>>
    BY <1>1, <2>1, <2>5
  <2>10. CommandOutcomeTruthful'
    BY <1>1 DEF CommandOutcomeTruthful
  <2> QED BY <1>1, <2>1, <2>2, <2>4, <2>5, <2>6, <2>7, <2>8, <2>9, <2>10
<1> QED BY <1>2, <1>4, <1>5, SMTT(60)

\* The command is started, or Run returns without it.
LEMMA StartInv == ASSUME Limits, IInv, Start PROVE IInv'
<1> USE DEF Limits, IInv, TypeOK, Start
<1>1. /\ UNCHANGED <<watch, sent, pipe, buf, exceeded, copying, ctx>> /\ outcome = "none"
      /\ process = "new" /\ process' \in {"running", "unstarted"}
  OBVIOUS
<1>2. \/ process' = "running" /\ outcome' = "none"
      \/ /\ process' = "unstarted"
         /\ outcome' \in {"limit", "timeout", "canceled", "failed"}
         /\ outcome' = "limit" <=> \E s \in Streams : exceeded[s]
         /\ outcome' = "timeout" => ctx = "deadline"
         /\ outcome' = "canceled" => ctx = "canceled"
  BY SMTT(60) DEF Outcome
<1>3. CommandOutcomeTruthful'
  BY <1>1, <1>2, SMTT(60) DEF CommandOutcomeTruthful
<1> QED BY <1>1, <1>2, <1>3, SMTT(60) DEF Intact, Over

\* The end of the process, of reqCtx, of the watch or of the wait for the pipes.
LEMMA EndInv == ASSUME Limits, IInv,
                       \/ \E s \in Streams : CopyEnds(s)
                       \/ \E status \in {"exited", "failed"} : Exit(status)
                       \/ \E cause \in {"canceled", "deadline"} : Cancel(cause)
                       \/ Interrupt \/ Relieve \/ WaitDelay
                PROVE  IInv'
<1> USE DEF Limits, IInv, TypeOK, CommandOutcomeTruthful, Intact, Over
<1>1. ASSUME NEW s \in Streams, CopyEnds(s) PROVE IInv'
  BY <1>1, SMTT(60) DEF CopyEnds
<1>2. ASSUME NEW status \in {"exited", "failed"}, Exit(status) PROVE IInv'
  BY <1>2, SMTT(60) DEF Exit
<1>3. ASSUME NEW cause \in {"canceled", "deadline"}, Cancel(cause) PROVE IInv'
  BY <1>3, SMTT(60) DEF Cancel, End
<1>4. CASE WaitDelay
  BY <1>4, SMTT(60) DEF WaitDelay
<1>5. CASE Interrupt
  BY <1>5, SMTT(60) DEF Interrupt
<1>6. CASE Relieve
  BY <1>6, SMTT(60) DEF Relieve
<1> QED BY <1>1, <1>2, <1>3, <1>4, <1>5, <1>6

\* Run returns an outcome.
LEMMA ReturnInv == ASSUME Limits, IInv, Return PROVE IInv'
<1> USE DEF Limits, IInv, TypeOK, Return
<1>1. /\ UNCHANGED <<process, watch, sent, pipe, buf, exceeded, copying, ctx>>
      /\ process \in {"exited", "failed", "killed", "abandoned"} /\ watch # "watching"
      /\ \A s \in Streams : ~copying[s]
  BY SMTT(30) DEF Over
<1>2. ASSUME outcome' = "success", NEW s \in Streams
      PROVE  buf[s] = [i \in 1 .. sent[s] |-> i]
  <2>1. ~exceeded[s] /\ process = "exited" /\ pipe[s] = <<>>
    BY <1>1, <1>2, SMTT(60) DEF Outcome, WaitError
  <2>2. Len(buf[s]) = sent[s] /\ \A i \in 1 .. Len(buf[s]) : buf[s][i] = i
    BY <2>1, LenProperties, EmptySeq, SMTT(60) DEF Intact, Ordered
  <2> QED BY <2>2, SMTT(60)
<1>3. CommandOutcomeTruthful'
  BY <1>1, <1>2, SMTT(60) DEF CommandOutcomeTruthful, Outcome, WaitError
<1>4. outcome' \in {"success", "limit", "timeout", "canceled", "failed"}
  BY DEF Outcome
<1> QED BY <1>1, <1>3, <1>4, SMTT(60) DEF Intact, Over

\* Every step keeps the invariant.
LEMMA NextInv == ASSUME Limits PROVE IInv /\ [Next]_vars => IInv'
<1> SUFFICES ASSUME IInv, [Next]_vars PROVE IInv'
  OBVIOUS
<1>1. CASE UNCHANGED vars
  BY <1>1, SMTT(60) DEF vars, IInv, TypeOK, CommandOutcomeTruthful, Intact
<1> QED BY <1>1, StartInv, SendInv, CopyInv, EndInv, ReturnInv DEF Next, Copying

\* For every limit and every number of bytes: a parsed output is everything that a
\* command which exited with 0 wrote, in order; an overflow is reported as one, a
\* timeout or a cancellation only when there was one; and a clean end that no kill
\* met keeps its result (CommandAdapter.Run, limitedOutputBuffer.Write).
THEOREM OutcomeIsTrue == ASSUME Limits PROVE Spec => []CommandOutcomeTruthful
<1>1. Init => IInv
  BY InitInv
<1>2. IInv /\ [Next]_vars => IInv'
  BY NextInv
<1>3. IInv => CommandOutcomeTruthful
  BY DEF IInv
<1> QED BY <1>1, <1>2, <1>3, PTL DEF Spec
=============================================================================
