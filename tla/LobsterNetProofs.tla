---------------------------- MODULE LobsterNetProofs ----------------------------
(***************************************************************************)
(* The invariants of LobsterNet, for every size of the buffers and         *)
(* whatever servers and compiler answer.  First those about the course of  *)
(* a command, then what a command leaves in the registers.                 *)
(***************************************************************************)
EXTENDS LobsterNet, FiniteSetTheorems, SequenceTheorems, WellFoundedInduction, TLAPS

\* Between commands, and once a compilation has its result, the device is not
\* busy.
StatusInv ==
  /\ pc \in {"ready", "fetch", "source", "write", "outputs", "gcc", "clean"}
  /\ pc = "clean" => status # "busy"
  /\ NeverSeenBusy

\* AUTH_MODE is set only while armed, and a fetch takes it back when it starts.
AuthInv ==
  /\ auth = 1 => armed
  /\ pc = "fetch" => auth = 0
  /\ pc # "fetch" => request.token = <<>>
  /\ TokenOncePerArming

\* A file was left only by a command that failed with nothing to read, and one
\* at most; a command that makes temporary files has one until it makes the
\* others.
FilesInv ==
  /\ pc = "write" => tmp = {"c"}
  /\ LeftBehind

\* The inductive invariant.
NetInv == StatusInv /\ AuthInv /\ FilesInv

\* It holds initially.
LEMMA InitNetInv == Init => NetInv
  BY DEF Init, NetInv, StatusInv, AuthInv, FilesInv, NeverSeenBusy, Ready,
         TokenOncePerArming, NoRequest, LeftBehind

\* The buffer is taken apart only when AUTH_MODE is set.
LEMMA TokenNeedsAuth == Request.token # <<>> => auth = 1
  BY DEF Request, WholeBuffer

\* At most one of two files is no more than one.
LEMMA OneFile ==
  /\ Cardinality({}) <= 1
  /\ \A f : Cardinality({f}) <= 1
<1>1. Cardinality({}) = 0 BY FS_EmptySet
<1>2. Cardinality({}) <= 1 BY <1>1
<1>3. ASSUME NEW f PROVE Cardinality({f}) <= 1
  <2>1. Cardinality({f}) = 1 BY FS_Singleton
  <2> QED BY <2>1
<1> QED BY <1>2, <1>3

\* Each group of steps keeps the invariant: writes to the other registers ...
LEMMA RegistersKeep ==
  ASSUME NetInv,
         \/ \E i \in Cell, data \in Data : WriteData(i, data)
         \/ \E n \in 0 .. UrlMax + 1 : WriteUrlLen(n)
         \/ \E val \in 0 .. 3 : WriteAuth(val)
         \/ CmdReset
         \/ UNCHANGED vars
  PROVE  NetInv'
<1> USE DEF NetInv, StatusInv, AuthInv, FilesInv, NeverSeenBusy, Ready,
            TokenOncePerArming, LeftBehind, Idle, files, response, registers
<1>1. ASSUME NEW i \in Cell, NEW data \in Data, WriteData(i, data) PROVE NetInv'
  BY <1>1 DEF WriteData
<1>2. ASSUME NEW n \in 0 .. UrlMax + 1, WriteUrlLen(n) PROVE NetInv'
  BY <1>2 DEF WriteUrlLen
<1>3. ASSUME NEW val \in 0 .. 3, WriteAuth(val) PROVE NetInv'
  <2>1. StatusInv' BY <1>3 DEF WriteAuth
  <2>2. FilesInv' BY <1>3 DEF WriteAuth
  <2>3. /\ auth' = val % 2 /\ armed' = (val % 2 = 1) /\ UNCHANGED <<pc, request>>
        /\ pc = "ready"
    BY <1>3 DEF WriteAuth
  <2>4. request.token = <<>> BY <2>3
  <2>5. CASE val % 2 = 1
    BY <2>1, <2>2, <2>3, <2>4, <2>5
  <2>6. CASE val % 2 # 1
    <3>1. ~armed' /\ auth' # 1 BY <2>3, <2>6
    <3> QED BY <2>1, <2>2, <2>3, <2>4, <3>1
  <2> QED BY <2>5, <2>6
<1>4. CASE CmdReset
  BY <1>4 DEF CmdReset, Cleared
<1>5. CASE UNCHANGED vars
  BY <1>5 DEF vars
<1> QED BY <1>1, <1>2, <1>3, <1>4, <1>5

\* ... a fetch ...
LEMMA FetchKeeps == NetInv /\ Fetch => NetInv'
<1> SUFFICES ASSUME NetInv, Fetch PROVE NetInv' OBVIOUS
<1> USE DEF NetInv, StatusInv, AuthInv, FilesInv, NeverSeenBusy, Ready,
            TokenOncePerArming, LeftBehind, files, registers
<1>1. CASE CmdFetch
  <2>1. /\ pc = "ready" /\ pc' = "fetch" /\ status' = "busy"
        /\ request' = Request /\ auth' = 0
        /\ UNCHANGED <<armed, tmp, left>>
    BY <1>1 DEF CmdFetch, AuthAfterFetch
  <2>2. request'.token # <<>> => armed' BY <2>1, TokenNeedsAuth
  <2> QED BY <2>1, <2>2
<1>2. ASSUME FetchReturns, status' # "busy", pc = "fetch" PROVE NetInv'
  BY <1>2 DEF FetchReturns, NoRequest
<1>3. CASE FetchFails
  BY <1>2, <1>3 DEF FetchFails
<1>4. ASSUME NEW body, NEW code, NEW n, CurlBreaksOff(body, code, n) PROVE NetInv'
  BY <1>2, <1>4 DEF CurlBreaksOff, FetchReads
<1>5. ASSUME NEW body, NEW code, CurlAnswers(body, code) PROVE NetInv'
  BY <1>2, <1>5 DEF CurlAnswers, FetchReads
<1> QED BY <1>1, <1>3, <1>4, <1>5 DEF Fetch

\* ... a compilation, which leaves AUTH_MODE and the fetch alone ...
LEMMA CompileKeeps == NetInv /\ Compile => NetInv'
<1> SUFFICES ASSUME NetInv, Compile PROVE NetInv' OBVIOUS
<1> USE DEF NetInv, StatusInv, AuthInv, FilesInv, NeverSeenBusy, Ready,
            TokenOncePerArming, LeftBehind, files, registers, response, CompileOnly
<1>1. CASE CmdCompile BY <1>1 DEF CmdCompile
<1>2. ASSUME NEW kept, CompileGivesUp(kept), Cardinality(kept) <= 1, pc # "fetch"
      PROVE  NetInv'
  BY <1>2 DEF CompileGivesUp
<1>3. CASE NoSource
  <2>1. Cardinality({}) <= 1 BY OneFile
  <2> QED BY <1>2, <1>3, <2>1 DEF NoSource
<1>4. CASE MakeSource BY <1>4 DEF MakeSource
<1>5. CASE ShortWrite
  <2>1. pc = "write" /\ CompileGivesUp(tmp) BY <1>5 DEF ShortWrite
  <2>2. tmp = {"c"} BY <2>1
  <2>3. Cardinality(tmp) <= 1 BY <2>2, OneFile
  <2> QED BY <1>2, <2>1, <2>3
<1>6. CASE WriteSource BY <1>6 DEF WriteSource
<1>7. ASSUME NEW made \in SUBSET {"elf", "err"}, NoOutputs(made) PROVE NetInv'
  <2>1. made = {} \/ made = {"elf"} \/ made = {"err"} BY <1>7 DEF NoOutputs
  <2>2. Cardinality(made) <= 1 BY <2>1, OneFile
  <2> QED BY <1>2, <1>7, <2>2 DEF NoOutputs
<1>8. CASE MakeOutputs BY <1>8 DEF MakeOutputs
<1>9. ASSUME NEW msg \in Messages, GccFails(msg) PROVE NetInv'
  BY <1>9 DEF GccFails, CompileEnds
<1>10. ASSUME NEW elf \in Programs, GccSucceeds(elf) PROVE NetInv'
  BY <1>10 DEF GccSucceeds, CompileEnds
<1>11. CASE NoElf BY <1>11 DEF NoElf
<1>12. CASE NoMessages BY <1>12 DEF NoMessages
<1>13. CASE Clean BY <1>13 DEF Clean
<1> QED
  BY <1>1, <1>3, <1>4, <1>5, <1>6, <1>7, <1>8, <1>9, <1>10, <1>11, <1>12, <1>13
  DEF Compile

\* ... and a restart.
LEMMA RestartKeeps == NetInv /\ Restart => NetInv'
<1> SUFFICES ASSUME NetInv, Restart PROVE NetInv' OBVIOUS
<1>1. StatusInv'
  BY DEF NetInv, StatusInv, NeverSeenBusy, Ready, Restart, Cleared
<1>2. AuthInv'
  BY DEF NetInv, AuthInv, TokenOncePerArming, Restart, Cleared, NoRequest
<1>3. FilesInv'
  BY DEF FilesInv, LeftBehind, Restart
<1> QED BY <1>1, <1>2, <1>3 DEF NetInv

\* The inductive invariant holds in every reachable state.
THEOREM NetInvariant == Spec => []NetInv
<1>1. NetInv /\ [Next]_vars => NetInv'
  BY RegistersKeep, FetchKeeps, CompileKeeps, RestartKeeps DEF Next
<1> QED BY InitNetInv, <1>1, PTL DEF Spec

\* A guest that polls STATUS after a command never finds the device busy,
\* however the command failed.
THEOREM EveryCommandAnswers == Spec => []NeverSeenBusy
<1>1. NetInv => NeverSeenBusy BY DEF NetInv, StatusInv
<1> QED BY <1>1, NetInvariant, PTL

\* A token is passed on once for each time AUTH_MODE was set.
THEOREM TokenUsedOnce == Spec => []TokenOncePerArming
<1>1. NetInv => TokenOncePerArming BY DEF NetInv, AuthInv
<1> QED BY <1>1, NetInvariant, PTL

\* A guest that is told of success or has something to read can rely on a clean
\* disk, and a command that failed left one file at most.
THEOREM FilesAreRemoved == Spec => []LeftBehind
<1>1. NetInv => LeftBehind BY DEF NetInv, FilesInv
<1> QED BY <1>1, NetInvariant, PTL

-----------------------------------------------------------------------------
(* Numbers.                                                                *)

\* A set of numbers has a least one.
LEMMA LeastNumber ==
  ASSUME NEW T, T \subseteq Nat, T # {}
  PROVE  \E x \in T : \A y \in T : x <= y
<1> DEFINE R == {ss \in Nat \X Nat : ss[1] < ss[2]}
<1>1. IsWellFoundedOn(R, Nat)
      BY NatLessThanWellFounded DEF OpToRel
<1>2. \A x, y \in Nat : y < x => <<y, x>> \in R
      OBVIOUS
<1> HIDE DEF R
<1>3. PICK x \in T : \A y \in T : <<y, x>> \notin R
      BY <1>1, WFMin
<1>4. ASSUME NEW y \in T
      PROVE  x <= y
  <2>1. x \in Nat /\ y \in Nat
        OBVIOUS
  <2>2. ~(y < x)
        BY <1>2, <1>3, <2>1
  <2> QED BY <2>1, <2>2
<1> QED BY <1>4

\* Induction over the numbers up to n, for a property given as a set.
LEMMA InductionUpTo ==
  ASSUME NEW n \in Nat, NEW S, 0 \in S, \A k \in 0 .. n - 1 : k \in S => k + 1 \in S
  PROVE  0 .. n \subseteq S
<1> SUFFICES ASSUME ~(0 .. n \subseteq S)
             PROVE  FALSE
    OBVIOUS
<1> DEFINE T == {k \in 0 .. n : k \notin S}
<1>1. T \subseteq Nat /\ T # {}
      OBVIOUS
<1>2. PICK x \in T : \A y \in T : x <= y
  <2> HIDE DEF T
  <2> QED BY <1>1, LeastNumber
<1>3. x # 0 /\ x \in 0 .. n
      OBVIOUS
<1>4. x - 1 \in 0 .. n - 1 /\ x - 1 \notin T
      BY <1>2, <1>3
<1>5. x - 1 \in S
      BY <1>4
<1>6. x \in S
      BY <1>4, <1>5
<1> QED BY <1>6

\* A sequence of digits has a value, which is a number: the recursion of Number
\* defines a function.
LEMMA NumberIsNat ==
  ASSUME NEW digits \in Seq(Digit)
  PROVE  Number(digits) \in Nat
<1> DEFINE L == Len(digits)
           V(i) == Value[digits[i]]
           Body(f) == [n \in 0 .. L |-> IF n = 0 THEN 0 ELSE 10 * f[n - 1] + V(n)]
           Upto == CHOOSE f : f = Body(f)
<1>1. L \in Nat /\ \A i \in 1 .. L : V(i) \in Nat
  <2>1. ASSUME NEW i \in 1 .. L
        PROVE  V(i) \in Nat
    <3>1. digits[i] \in Digit
          OBVIOUS
    <3> QED BY <3>1 DEF Value, Digit
  <2> QED BY <2>1
<1>2. Number(digits) = Upto[L]
      BY DEF Number
<1> HIDE DEF L, V
<1>3. \E g : g = Body(g)
  <2> DEFINE Sums(n, g) ==
               /\ g \in [0 .. n -> Nat] /\ g[0] = 0
               /\ \A i \in 1 .. n : g[i] = 10 * g[i - 1] + V(i)
             S == {n \in 0 .. L : \E g : Sums(n, g)}
  <2>1. 0 \in S
    <3> DEFINE g == [i \in 0 .. 0 |-> 0]
    <3>1. Sums(0, g)
          OBVIOUS
    <3> HIDE DEF Sums, g
    <3> QED BY <1>1, <3>1
  <2>2. ASSUME NEW k \in 0 .. L - 1, k \in S
        PROVE  k + 1 \in S
    <3>1. PICK g : Sums(k, g)
          BY <2>2
    <3> DEFINE h == [i \in 0 .. k + 1 |-> IF i = k + 1 THEN 10 * g[k] + V(k + 1) ELSE g[i]]
    <3>2. k \in Nat /\ k + 1 \in 1 .. L /\ g[k] \in Nat /\ V(k + 1) \in Nat
          BY <1>1, <3>1
    <3>3. Sums(k + 1, h)
      <4>1. h \in [0 .. k + 1 -> Nat]
            BY <3>1, <3>2
      <4>2. h[0] = 0 /\ \A i \in 1 .. k + 1 : h[i] = 10 * h[i - 1] + V(i)
            BY <3>1, <3>2
      <4> HIDE DEF h
      <4> QED BY <4>1, <4>2
    <3> HIDE DEF Sums, h
    <3> QED BY <1>1, <3>2, <3>3
  <2> HIDE DEF S
  <2>3. 0 .. L \subseteq S
        BY <1>1, <2>1, <2>2, InductionUpTo
  <2>4. PICK g : Sums(L, g)
    <3> HIDE DEF Sums
    <3>1. L \in S
          BY <1>1, <2>3
    <3> QED BY <3>1 DEF S
  <2>5. g = Body(g)
        BY <1>1, <2>4
  <2> QED BY <2>5
<1>4. Upto = Body(Upto)
      BY <1>3
<1> HIDE DEF Upto
<1>5. /\ Upto[0] = 0
      /\ \A n \in 1 .. L : Upto[n] = 10 * Upto[n - 1] + V(n)
      BY <1>1, <1>4
<1> DEFINE N == {n \in 0 .. L : Upto[n] \in Nat}
<1>6. 0 \in N
      BY <1>1, <1>5
<1>7. ASSUME NEW k \in 0 .. L - 1, k \in N
      PROVE  k + 1 \in N
      BY <1>1, <1>5, <1>7
<1>8. 0 .. L \subseteq N
  <2> HIDE DEF N
  <2> QED BY <1>1, <1>6, <1>7, InductionUpTo
<1> QED BY <1>1, <1>2, <1>8

-----------------------------------------------------------------------------
(* What is read from curl and the compiler.                                *)

\* The digits end somewhere: at the first byte that is none, or with the bytes.
LEMMA DigitsEnd ==
  ASSUME NEW out \in Seq(RespSym), NEW k \in 0 .. Len(out)
  PROVE  \E e \in k .. Len(out) : IsEndOfDigits(out, k, e)
<1> DEFINE T == {e \in k .. Len(out) : e = Len(out) \/ out[e + 1] \notin Digit}
<1>1. T \subseteq Nat /\ T # {}
      OBVIOUS
<1>2. PICK e \in T : \A y \in T : e <= y
  <2> HIDE DEF T
  <2> QED BY <1>1, LeastNumber
<1>3. ASSUME NEW i \in k + 1 .. e
      PROVE  out[i] \in Digit
  <2>1. i - 1 \in k .. Len(out) /\ i - 1 < e /\ (i - 1) + 1 = i
        OBVIOUS
  <2>2. i - 1 \notin T
    <3>1. ASSUME i - 1 \in T
          PROVE  FALSE
      <4>1. e <= i - 1
        <5> HIDE DEF T
        <5> QED BY <1>2, <3>1
      <4> QED BY <2>1, <4>1
    <3> QED BY <3>1
  <2> QED BY <2>1, <2>2
<1>4. e \in k .. Len(out) /\ (e < Len(out) => out[e + 1] \notin Digit)
      OBVIOUS
<1> HIDE DEF T
<1> QED BY <1>3, <1>4 DEF IsEndOfDigits

\* What atoi makes of bytes is a number.
LEMMA AtoiIsNat ==
  ASSUME NEW out \in Seq(RespSym), NEW k \in 0 .. Len(out)
  PROVE  Atoi(out, k) \in Nat
<1> DEFINE e == CHOOSE e \in k .. Len(out) : IsEndOfDigits(out, k, e)
<1>1. e \in k .. Len(out) /\ IsEndOfDigits(out, k, e)
      BY DigitsEnd
<1>2. Atoi(out, k) = Number(SubSeq(out, k + 1, e))
      BY DEF Atoi
<1> HIDE DEF e
<1>3. SubSeq(out, k + 1, e) \in Seq(Digit)
  <2> DEFINE u == SubSeq(out, k + 1, e)
  <2>1. u \in Seq(RespSym) /\ Len(u) = e - k /\ \A i \in 1 .. e - k : u[i] = out[k + i]
        BY <1>1
  <2>2. \A i \in 1 .. Len(u) : u[i] \in Digit
        BY <1>1, <2>1 DEF IsEndOfDigits
  <2> HIDE DEF u
  <2>3. u \in [1 .. Len(u) -> Digit] /\ Len(u) \in Nat
        BY <2>1, <2>2, LenProperties
  <2>4. u \in Seq(Digit)
        BY <2>3, SeqDef
  <2> QED BY <2>4 DEF u
<1> QED BY <1>2, <1>3, NumberIsNat

\* When nothing but digits follows, atoi is the value of all of them.
LEMMA AtoiOfDigits ==
  ASSUME NEW out \in Seq(RespSym), NEW k \in 0 .. Len(out),
         \A i \in k + 1 .. Len(out) : out[i] \in Digit
  PROVE  Atoi(out, k) = Number(SubSeq(out, k + 1, Len(out)))
<1> DEFINE e == CHOOSE e \in k .. Len(out) : IsEndOfDigits(out, k, e)
<1>1. e \in k .. Len(out) /\ IsEndOfDigits(out, k, e)
      BY DigitsEnd
<1>2. Atoi(out, k) = Number(SubSeq(out, k + 1, e))
      BY DEF Atoi
<1> HIDE DEF e
<1>3. e = Len(out)
      BY <1>1 DEF IsEndOfDigits
<1> QED BY <1>2, <1>3

\* A prefix of bytes is no longer than it may be, and all of them if they fit.
LEMMA PrefixFacts ==
  ASSUME NEW S, NEW s \in Seq(S), NEW n \in Nat
  PROVE  /\ Prefix(s, n) \in Seq(S)
         /\ Len(Prefix(s, n)) <= n /\ Len(Prefix(s, n)) \in Nat
         /\ Len(s) <= n => Prefix(s, n) = s
<1> DEFINE m == Low(n, Len(s))
           u == SubSeq(s, 1, m)
<1>1. m \in 0 .. Len(s) /\ m <= n /\ (Len(s) <= n => m = Len(s))
      BY DEF Low
<1> HIDE DEF m
<1>2. u \in Seq(S) /\ Len(u) = m /\ \A i \in 1 .. m : u[i] = s[i]
      BY <1>1
<1>3. Prefix(s, n) = u
      BY DEF Prefix, m
<1> HIDE DEF u
<1>4. Len(s) <= n => u = s
      BY <1>1, <1>2, SeqEqual
<1> QED BY <1>1, <1>2, <1>3, <1>4

\* The registers get a length within what was read, and a number.
LEMMA ParseTypes ==
  ASSUME NEW out \in Seq(RespSym)
  PROVE  Parse(out).len \in 0 .. Len(out) /\ Parse(out).code \in Nat
<1>1. CASE \E k \in DOMAIN out : IsSeparator(out, k)
  <2> DEFINE k == CHOOSE k \in DOMAIN out : IsSeparator(out, k)
  <2>1. k \in DOMAIN out
        BY <1>1
  <2>2. Parse(out) = [len |-> k - 1, code |-> Atoi(out, k)]
        BY <1>1 DEF Parse
  <2> HIDE DEF k
  <2>3. k \in 1 .. Len(out)
        BY <2>1
  <2>4. Atoi(out, k) \in Nat
        BY <2>3, AtoiIsNat
  <2> QED BY <2>2, <2>3, <2>4
<1>2. CASE ~\E k \in DOMAIN out : IsSeparator(out, k)
      BY <1>2 DEF Parse
<1> QED BY <1>1, <1>2

\* What two sequences make together: a sequence,
LEMMA ConcatIsSeq ==
  ASSUME NEW S, NEW s \in Seq(S), NEW t \in Seq(S)
  PROVE  s \o t \in Seq(S)
  OBVIOUS

\* ... how long it is,
LEMMA ConcatLen ==
  ASSUME NEW S, NEW s \in Seq(S), NEW t \in Seq(S)
  PROVE  Len(s \o t) = Len(s) + Len(t)
  OBVIOUS

\* ... the elements of the first,
LEMMA ConcatLeft ==
  ASSUME NEW S, NEW s \in Seq(S), NEW t \in Seq(S)
  PROVE  \A i \in 1 .. Len(s) : (s \o t)[i] = s[i]
  OBVIOUS

\* ... and those of the second.
LEMMA ConcatRight ==
  ASSUME NEW S, NEW s \in Seq(S), NEW t \in Seq(S)
  PROVE  \A i \in 1 .. Len(t) : (s \o t)[Len(s) + i] = t[i]
  OBVIOUS

\* The same with one element between the two.
LEMMA JoinedBy ==
  ASSUME NEW S, NEW s \in Seq(S), NEW sep \in S, NEW t \in Seq(S),
         NEW all, all = s \o <<sep>> \o t
  PROVE  /\ all \in Seq(S) /\ Len(all) = Len(s) + 1 + Len(t)
         /\ \A i \in 1 .. Len(s) : all[i] = s[i]
         /\ all[Len(s) + 1] = sep
         /\ \A i \in 1 .. Len(t) : all[Len(s) + 1 + i] = t[i]
<1> DEFINE mid == <<sep>>
           front == s \o mid
<1>1. mid \in Seq(S) /\ Len(mid) = 1 /\ mid[1] = sep
      OBVIOUS
<1> HIDE DEF mid
<1>2. front \in Seq(S) /\ Len(front) = Len(s) + 1
      BY <1>1, ConcatIsSeq, ConcatLen
<1>3. \A i \in 1 .. Len(s) : front[i] = s[i]
      BY <1>1, ConcatLeft
<1>4. \A i \in 1 .. Len(mid) : front[Len(s) + i] = mid[i]
      BY <1>1, ConcatRight
<1>5. all = front \o t
      BY DEF mid
<1> HIDE DEF front
<1>6. all \in Seq(S) /\ Len(all) = Len(front) + Len(t)
      BY <1>2, <1>5, ConcatIsSeq, ConcatLen
<1>7. \A i \in 1 .. Len(front) : all[i] = front[i]
      BY <1>2, <1>5, ConcatLeft
<1>8. \A i \in 1 .. Len(t) : all[Len(front) + i] = t[i]
      BY <1>2, <1>5, ConcatRight
<1>9. front[Len(s) + 1] = sep
      BY <1>1, <1>4
<1> QED BY <1>2, <1>3, <1>6, <1>7, <1>8, <1>9

\* The body is what stands before the last newline, and the code what follows
\* it, whatever newlines the body has.
LEMMA CurlOutputParsed ==
  ASSUME NEW body \in Seq(RespSym), NEW code \in Seq(Digit), Len(code) \in 1 .. CodeRoom - 1
  PROVE  /\ CurlOutput(body, code) \in Seq(RespSym)
         /\ Parse(CurlOutput(body, code)) = [len |-> Len(body), code |-> Atoi(code, 0)]
         /\ SubSeq(CurlOutput(body, code), 1, Len(body)) = body
<1> DEFINE out == CurlOutput(body, code)
           k == Len(body) + 1
<1>1. code \in Seq(RespSym) /\ "nl" \in RespSym
  <2>1. Digit \subseteq RespSym
        BY DEF RespSym
  <2>2. code \in Seq(RespSym)
        BY <2>1, SeqMonotonic
  <2> QED BY <2>2 DEF RespSym
<1>2. out = body \o <<"nl">> \o code
      BY DEF CurlOutput
<1> HIDE DEF out
<1>3. /\ out \in Seq(RespSym) /\ Len(out) = k + Len(code)
      /\ \A i \in 1 .. Len(body) : out[i] = body[i]
      /\ out[k] = "nl"
      /\ \A i \in 1 .. Len(code) : out[k + i] = code[i]
      BY <1>1, <1>2, JoinedBy
<1>5. \A i \in k + 1 .. Len(out) : out[i] \in Digit
  <2> SUFFICES ASSUME NEW i \in k + 1 .. Len(out)
               PROVE  out[i] \in Digit
      OBVIOUS
  <2>1. i - k \in 1 .. Len(code) /\ i = k + (i - k)
        BY <1>3
  <2>2. code[i - k] \in Digit
        BY <2>1
  <2> QED BY <1>3, <2>1, <2>2
<1>6. k \in 1 .. Len(out) /\ out[k] = "nl" /\ DOMAIN out = 1 .. Len(out)
      BY <1>3
<1>7. \A j \in Newlines(out) : j <= k
  <2>1. "nl" \notin Digit
        BY DEF Digit
  <2> QED BY <1>5, <1>6, <2>1 DEF Newlines
<1>8. \A j \in DOMAIN out : IsSeparator(out, j) <=> j = k
  <2>1. k \in Newlines(out) /\ Len(out) - k \in 1 .. CodeRoom - 1
        BY <1>3, <1>6 DEF Newlines
  <2>2. IsSeparator(out, k)
        BY <1>7, <2>1 DEF IsSeparator
  <2>3. ASSUME NEW j \in DOMAIN out, IsSeparator(out, j)
        PROVE  j = k
    <3>1. j \in Newlines(out) /\ k <= j
          BY <2>1, <2>3 DEF IsSeparator
    <3>2. j <= k
          BY <1>7, <3>1
    <3> QED BY <1>6, <3>1, <3>2
  <2> QED BY <2>2, <2>3
<1>9. (CHOOSE j \in DOMAIN out : IsSeparator(out, j)) = k
      BY <1>6, <1>8
<1>10. Parse(out) = [len |-> k - 1, code |-> Atoi(out, k)]
       BY <1>6, <1>8, <1>9 DEF Parse
<1>11. Atoi(out, k) = Atoi(code, 0)
  <2> DEFINE u == SubSeq(out, k + 1, Len(out))
  <2>1. u \in Seq(RespSym) /\ Len(u) = Len(code) /\ \A i \in 1 .. Len(code) : u[i] = out[k + i]
        BY <1>3, <1>6
  <2>2. Atoi(out, k) = Number(u)
    <3>1. k \in 0 .. Len(out)
          BY <1>6
    <3> HIDE DEF k
    <3> QED BY <1>3, <1>5, <3>1, AtoiOfDigits
  <2> HIDE DEF u
  <2>3. u = code
        BY <1>1, <1>3, <2>1, SeqEqual
  <2>4. SubSeq(code, 1, Len(code)) = code
        OBVIOUS
  <2>5. Atoi(code, 0) = Number(SubSeq(code, 1, Len(code)))
    <3>1. \A i \in 0 + 1 .. Len(code) : code[i] \in Digit
          OBVIOUS
    <3>2. Atoi(code, 0) = Number(SubSeq(code, 0 + 1, Len(code)))
          BY <1>1, <3>1, AtoiOfDigits
    <3> QED BY <3>2
  <2> QED BY <2>2, <2>3, <2>4, <2>5
<1>12. SubSeq(out, 1, Len(body)) = body
  <2> DEFINE u == SubSeq(out, 1, Len(body))
  <2>1. u \in Seq(RespSym) /\ Len(u) = Len(body) /\ \A i \in 1 .. Len(body) : u[i] = body[i]
        BY <1>3
  <2> HIDE DEF u
  <2>2. u = body
        BY <2>1, SeqEqual
  <2> QED BY <2>2 DEF u
<1> QED BY <1>3, <1>10, <1>11, <1>12 DEF out
-----------------------------------------------------------------------------
(* The types of the variables.                                             *)

BufferType == urlBuf \in [Cell -> Sym] /\ urlLen \in 0 .. UrlMax /\ auth \in 0 .. 1
ReplyType ==
  /\ status \in {"idle", "busy", "done", "error"}
  /\ respBuf \in Seq(RespSym) /\ Len(respBuf) <= RespMax
  /\ respLen \in 0 .. Len(respBuf) /\ respCode \in Nat
AnswerType == answer \in Answer
RequestType == request \in [url : Seq(Sym), token : Seq(Sym)]
FilesType == tmp \subseteq TempFile /\ left \subseteq TempFile
FlowType ==
  /\ pc \in {"ready", "fetch", "source", "write", "outputs", "gcc", "clean"}
  /\ armed \in BOOLEAN

\* Together they are the type invariant.
LEMMA TypeParts ==
  TypeOK <=> /\ BufferType /\ ReplyType /\ AnswerType
             /\ RequestType /\ FilesType /\ FlowType
  BY DEF TypeOK, BufferType, ReplyType, AnswerType, RequestType, FilesType, FlowType

\* The parts after a step are the type invariant after it.
LEMMA TypePartsNext ==
  TypeOK' <=> /\ BufferType' /\ ReplyType' /\ AnswerType'
              /\ RequestType' /\ FilesType' /\ FlowType'
  BY DEF TypeOK, BufferType, ReplyType, AnswerType, RequestType, FilesType, FlowType

\* Nothing was asked.
LEMMA NothingTypes ==
  NoRequest \in [url : Seq(Sym), token : Seq(Sym)] /\ NoRequest.token = <<>>
<1>1. <<>> \in Seq(Sym)
      OBVIOUS
<1> QED BY <1>1 DEF NoRequest

\* An answer of nothing is an answer.
LEMMA NothingSaidTypes ==
  ASSUME NEW c \in Nat, NEW b \in BOOLEAN
  PROVE  NothingSaid(c, b) \in Answer
<1>1. <<>> \in Seq(RespSym)
      OBVIOUS
<1> QED BY <1>1 DEF NothingSaid, Answer

\* A piece of the buffer is a sequence of its symbols.
LEMMA BytesFacts ==
  ASSUME BufferType, NEW from \in Nat, NEW to \in Nat, from <= to, to <= UrlMax
  PROVE  /\ Bytes(from, to) \in Seq(Sym) /\ Len(Bytes(from, to)) = to - from
         /\ \A k \in 1 .. to - from : Bytes(from, to)[k] = urlBuf[from + k - 1]
<1> DEFINE n == to - from
           u == Bytes(from, to)
<1>1. n \in Nat
      OBVIOUS
<1>2. u = [k \in 1 .. n |-> urlBuf[from + k - 1]]
      BY DEF Bytes
<1>3. ASSUME NEW k \in 1 .. n
      PROVE  urlBuf[from + k - 1] \in Sym
  <2>1. from + k - 1 \in Cell
        BY NetSizes DEF Cell
  <2> QED BY <2>1 DEF BufferType
<1> HIDE DEF u, n
<1>4. u \in [1 .. n -> Sym]
      BY <1>2, <1>3
<1>5. u \in Seq(Sym) /\ Len(u) = n
      BY <1>1, <1>4, LenProperties, SeqDef
<1>6. \A k \in 1 .. n : u[k] = urlBuf[from + k - 1]
      BY <1>2
<1> QED BY <1>5, <1>6 DEF u, n

\* The lesser of two numbers.
LEMMA LowFacts ==
  ASSUME NEW a \in Nat, NEW b \in Nat
  PROVE  Low(a, b) \in Nat /\ Low(a, b) <= a /\ Low(a, b) <= b
  BY DEF Low

\* Where the buffer is taken apart: at its first newline, into a token of
\* characters that are allowed and the rest.
LEMMA RequestFacts ==
  ASSUME BufferType
  PROVE  /\ Request \in [url : Seq(Sym), token : Seq(Sym)]
         /\ Request.token # <<>> =>
              /\ \A k \in DOMAIN Request.token : Request.token[k] = "tok"
              /\ Len(Request.token) <= TokenMax
              /\ \E n \in Cell : IsFirstNewline(n) /\ Request.url = Bytes(n + 1, urlLen)
<1>1. WholeBuffer \in [url : Seq(Sym), token : Seq(Sym)] /\ WholeBuffer.token = <<>>
  <2>1. 0 \in Nat /\ urlLen \in Nat /\ 0 <= urlLen /\ urlLen <= UrlMax
        BY NetSizes DEF BufferType
  <2>2. Bytes(0, urlLen) \in Seq(Sym)
        BY <2>1, BytesFacts
  <2> QED BY <2>2 DEF WholeBuffer
<1>2. CASE auth = 1 /\ \E n \in Cell : n > 0 /\ IsFirstNewline(n)
  <2> DEFINE n == CHOOSE n \in Cell : IsFirstNewline(n)
  <2>1. n \in Cell /\ IsFirstNewline(n)
        BY <1>2
  <2>2. Request = SplitAt(n)
        BY <1>2 DEF Request
  <2> HIDE DEF n
  <2> DEFINE m == Low(n, TokenMax)
  <2>3. /\ n \in Nat /\ urlLen \in Nat /\ n < urlLen /\ urlLen <= UrlMax
        /\ m \in Nat /\ m <= n /\ m <= TokenMax
    <3>1. n \in Nat /\ urlLen \in Nat /\ n < urlLen /\ urlLen <= UrlMax
          BY <2>1, NetSizes DEF Cell, IsFirstNewline, BufferType
    <3> QED BY <3>1, LowFacts, NetSizes
  <2>4. CASE \A c \in 0 .. m - 1 : urlBuf[c] = "tok"
    <3>1. Request = [url |-> Bytes(n + 1, urlLen), token |-> Bytes(0, m)]
          BY <2>2, <2>4 DEF SplitAt
    <3> HIDE DEF m
    <3>2. Bytes(n + 1, urlLen) \in Seq(Sym)
      <4>1. n + 1 \in Nat /\ n + 1 <= urlLen
            BY <2>3
      <4> QED BY <2>3, <4>1, BytesFacts
    <3>3. /\ Bytes(0, m) \in Seq(Sym) /\ Len(Bytes(0, m)) = m
          /\ \A k \in 1 .. m : Bytes(0, m)[k] = urlBuf[k - 1]
      <4>1. 0 \in Nat /\ 0 <= m /\ m <= UrlMax
            BY <2>3, NetSizes
      <4>2. /\ Bytes(0, m) \in Seq(Sym) /\ Len(Bytes(0, m)) = m - 0
            /\ \A k \in 1 .. m - 0 : Bytes(0, m)[k] = urlBuf[0 + k - 1]
            BY <2>3, <4>1, BytesFacts
      <4> QED BY <2>3, <4>2
    <3>4. \A k \in 1 .. m : Bytes(0, m)[k] = "tok"
          BY <2>3, <2>4, <3>3
    <3>5. DOMAIN Bytes(0, m) = 1 .. m
          BY <3>3
    <3> QED BY <2>1, <2>3, <3>1, <3>2, <3>3, <3>4, <3>5
  <2>5. CASE ~\A c \in 0 .. m - 1 : urlBuf[c] = "tok"
    <3>1. Request = WholeBuffer
          BY <2>2, <2>5 DEF SplitAt
    <3> QED BY <1>1, <3>1
  <2> QED BY <2>4, <2>5
<1>3. CASE ~(auth = 1 /\ \E n \in Cell : n > 0 /\ IsFirstNewline(n))
  <2>1. Request = WholeBuffer
        BY <1>3 DEF Request
  <2> QED BY <1>1, <2>1
<1> QED BY <1>2, <1>3

\* A reset and a restart put every register back.
LEMMA ClearedTypes == Cleared => BufferType' /\ ReplyType' /\ AnswerType' /\ armed' \in BOOLEAN
<1> SUFFICES ASSUME Cleared
             PROVE  BufferType' /\ ReplyType' /\ AnswerType' /\ armed' \in BOOLEAN
    OBVIOUS
<1>1. BufferType'
  <2>1. EmptyBuffer \in [Cell -> Sym]
        BY DEF EmptyBuffer, Sym
  <2> QED BY <2>1, NetSizes DEF Cleared, BufferType
<1>2. ReplyType'
  <2>1. <<>> \in Seq(RespSym) /\ Len(<<>>) = 0 /\ 0 \in 0 .. 0 /\ 0 <= RespMax
        BY NetSizes
  <2> QED BY <2>1 DEF Cleared, ReplyType
<1>3. AnswerType'
      BY NothingSaidTypes DEF Cleared, AnswerType
<1> QED BY <1>1, <1>2, <1>3 DEF Cleared

\* The writes between commands keep the types ...
LEMMA RegisterTypes ==
  ASSUME TypeOK,
         \/ \E i \in Cell, data \in Data : WriteData(i, data)
         \/ \E n \in 0 .. UrlMax + 1 : WriteUrlLen(n)
         \/ \E val \in 0 .. 3 : WriteAuth(val)
         \/ CmdReset
         \/ UNCHANGED vars
  PROVE  TypeOK'
<1> USE TypeParts, TypePartsNext DEF RequestType, FilesType, FlowType
<1>1. ASSUME NEW i \in Cell, NEW data \in Data, WriteData(i, data)
      PROVE  TypeOK'
  <2>1. urlBuf' \in [Cell -> Sym]
    <3>1. data \in Seq(Sym) /\ i \in Nat
          BY NetInputs DEF Cell
    <3>2. ASSUME NEW c \in Cell, c \in i .. i + Len(data) - 1
          PROVE  data[c - i + 1] \in Sym
      <4>1. c - i + 1 \in 1 .. Len(data)
            BY <3>1, <3>2 DEF Cell
      <4> QED BY <3>1, <4>1
    <3>3. ASSUME NEW c \in Cell
          PROVE  urlBuf[c] \in Sym
          BY DEF BufferType
    <3> QED BY <1>1, <3>2, <3>3 DEF WriteData
  <2>2. UNCHANGED <<urlLen, auth, response, armed, pc, request, files, answer>>
        BY <1>1 DEF WriteData, Idle
  <2> QED BY <2>1, <2>2 DEF BufferType, ReplyType, AnswerType, response, files
<1>2. ASSUME NEW n \in 0 .. UrlMax + 1, WriteUrlLen(n)
      PROVE  TypeOK'
  <2>1. urlLen' \in 0 .. UrlMax
        BY <1>2, NetSizes DEF WriteUrlLen
  <2>2. UNCHANGED <<urlBuf, auth, response, armed, pc, request, files, answer>>
        BY <1>2 DEF WriteUrlLen, Idle
  <2> QED BY <2>1, <2>2 DEF BufferType, ReplyType, AnswerType, response, files
<1>3. ASSUME NEW val \in 0 .. 3, WriteAuth(val)
      PROVE  TypeOK'
  <2>1. auth' \in 0 .. 1
        BY <1>3 DEF WriteAuth
  <2>2. armed' \in BOOLEAN
        BY <1>3 DEF WriteAuth
  <2>3. UNCHANGED <<urlBuf, urlLen, response, pc, request, files, answer>>
        BY <1>3 DEF WriteAuth, Idle
  <2> QED BY <2>1, <2>2, <2>3 DEF BufferType, ReplyType, AnswerType, response, files
<1>4. CASE CmdReset
  <2>1. BufferType' /\ ReplyType' /\ AnswerType' /\ armed' \in BOOLEAN
        BY <1>4, ClearedTypes DEF CmdReset
  <2>2. UNCHANGED <<pc, request, files>>
        BY <1>4 DEF CmdReset
  <2> QED BY <2>1, <2>2 DEF files
<1>5. CASE UNCHANGED vars
      BY <1>5 DEF vars, registers, response, files, BufferType, ReplyType, AnswerType
<1> QED BY <1>1, <1>2, <1>3, <1>4, <1>5

\* ... and so does what a fetch reads ...
LEMMA FetchReadsTypes ==
  ASSUME NEW out \in Seq(RespSym), FetchReads(out)
  PROVE  ReplyType'
<1> DEFINE read == Prefix(out, RespMax - CodeRoom)
<1>1. RespMax - CodeRoom \in Nat /\ RespMax - CodeRoom <= RespMax
      BY NetSizes
<1>2. read \in Seq(RespSym) /\ Len(read) <= RespMax - CodeRoom /\ Len(read) \in Nat
      BY <1>1, PrefixFacts
<1>3. /\ respBuf' = read /\ status' = "done"
      /\ respLen' = Parse(respBuf').len /\ respCode' = Parse(respBuf').code
      BY DEF FetchReads
<1> HIDE DEF read
<1>4. Parse(read).len \in 0 .. Len(read) /\ Parse(read).code \in Nat
      BY <1>2, ParseTypes
<1> QED BY <1>1, <1>2, <1>3, <1>4, NetSizes DEF ReplyType

\* ... a fetch as a whole ...
LEMMA FetchTypes == TypeOK /\ Fetch => TypeOK'
<1> SUFFICES ASSUME TypeOK, Fetch
             PROVE  TypeOK'
    OBVIOUS
<1> USE TypeParts, TypePartsNext DEF RequestType, FilesType, FlowType
<1>1. CASE CmdFetch
  <2>1. /\ status' = "busy" /\ request' = Request /\ auth' = 0 /\ pc' = "fetch"
        /\ UNCHANGED <<urlBuf, urlLen, respLen, respCode, respBuf, files, armed, answer>>
        BY <1>1 DEF CmdFetch, AuthAfterFetch
  <2>2. Request \in [url : Seq(Sym), token : Seq(Sym)]
        BY RequestFacts
  <2> QED BY <2>1, <2>2 DEF BufferType, ReplyType, AnswerType, files
<1>2. ASSUME FetchReturns, ReplyType', AnswerType'
      PROVE  TypeOK'
  <2>1. /\ pc' = "ready" /\ request' = NoRequest /\ armed' = FALSE
        /\ left' = {} /\ UNCHANGED <<registers, tmp>>
        BY <1>2 DEF FetchReturns
  <2>2. BufferType' /\ FilesType'
        BY <2>1 DEF BufferType, registers
  <2>3. RequestType'
        BY <2>1, NothingTypes
  <2> QED BY <1>2, <2>1, <2>2, <2>3
<1>3. CASE FetchFails
  <2>1. ReplyType'
        BY <1>3 DEF FetchFails, ReplyType
  <2>2. AnswerType'
        BY <1>3, NothingSaidTypes DEF FetchFails, AnswerType
  <2> QED BY <1>2, <1>3, <2>1, <2>2 DEF FetchFails
<1>4. ASSUME NEW body \in Bodies, NEW code \in Codes
      PROVE  /\ body \in Seq(RespSym) /\ code \in Seq(Digit)
             /\ CurlOutput(body, code) \in Seq(RespSym)
  <2>1. body \in Seq(RespSym) /\ code \in Seq(Digit) /\ Len(code) \in 1 .. CodeRoom - 1
        BY NetInputs
  <2> QED BY <2>1, CurlOutputParsed
<1>5. ASSUME NEW body \in Bodies, NEW code \in Codes, CurlAnswers(body, code)
      PROVE  TypeOK'
  <2> DEFINE out == CurlOutput(body, code)
  <2>1. out \in Seq(RespSym)
        BY <1>4
  <2>2. Atoi(code, 0) \in Nat
    <3>1. Digit \subseteq RespSym
          BY DEF RespSym
    <3>2. code \in Seq(RespSym)
          BY <1>4, <3>1, SeqMonotonic
    <3>3. 0 \in 0 .. Len(code)
          BY <1>4
    <3> QED BY <3>2, <3>3, AtoiIsNat
  <2>3. /\ FetchReads(out)
        /\ answer' = [bytes |-> body, output |-> out, code |-> Atoi(code, 0),
                      whole |-> Fits(out), coded |-> Fits(out), read |-> TRUE]
        BY <1>5 DEF CurlAnswers
  <2>4. Fits(out) \in BOOLEAN
        BY DEF Fits
  <2> HIDE DEF out
  <2>5. ReplyType'
        BY <2>1, <2>3, FetchReadsTypes
  <2>6. AnswerType'
        BY <1>4, <2>1, <2>2, <2>3, <2>4 DEF AnswerType, Answer
  <2> QED BY <1>2, <2>3, <2>5, <2>6 DEF FetchReads
<1>6. ASSUME NEW body \in Bodies, NEW code \in Codes,
             NEW n \in 0 .. Len(CurlOutput(body, code)) - 1, CurlBreaksOff(body, code, n)
      PROVE  TypeOK'
  <2> DEFINE out == Prefix(CurlOutput(body, code), n)
  <2>1. out \in Seq(RespSym)
        BY <1>4, PrefixFacts
  <2>2. /\ FetchReads(out)
        /\ answer' = [bytes |-> body, output |-> out, code |-> 0,
                      whole |-> FALSE, coded |-> FALSE, read |-> TRUE]
        BY <1>6 DEF CurlBreaksOff
  <2> HIDE DEF out
  <2>3. ReplyType'
        BY <2>1, <2>2, FetchReadsTypes
  <2>4. AnswerType'
        BY <1>4, <2>1, <2>2 DEF AnswerType, Answer
  <2> QED BY <1>2, <2>2, <2>3, <2>4 DEF FetchReads
<1> QED BY <1>1, <1>3, <1>5, <1>6 DEF Fetch

\* ... a compilation ...
LEMMA CompileTypes == NetInv /\ TypeOK /\ Compile => TypeOK'
<1> SUFFICES ASSUME NetInv, TypeOK, Compile
             PROVE  TypeOK'
    OBVIOUS
<1> USE TypeParts, TypePartsNext DEF FlowType
<1>1. ASSUME CompileOnly, ReplyType', AnswerType', FilesType',
             pc' \in {"ready", "source", "write", "outputs", "gcc", "clean"}
      PROVE  TypeOK'
      BY <1>1 DEF CompileOnly, registers, BufferType, RequestType
<1>2. ASSUME NEW kept \in SUBSET TempFile, CompileGivesUp(kept)
      PROVE  TypeOK'
  <2>1. ReplyType'
        BY <1>2 DEF CompileGivesUp, ReplyType
  <2>2. AnswerType'
        BY <1>2, NothingSaidTypes DEF CompileGivesUp, AnswerType
  <2>3. FilesType'
        BY <1>2 DEF CompileGivesUp, FilesType
  <2> QED BY <1>1, <1>2, <2>1, <2>2, <2>3 DEF CompileGivesUp
<1>3. CASE NoSource
      BY <1>2, <1>3 DEF NoSource
<1>4. CASE ShortWrite
      BY <1>2, <1>4 DEF ShortWrite, FilesType
<1>5. ASSUME NEW made \in SUBSET {"elf", "err"}, NoOutputs(made)
      PROVE  TypeOK'
      BY <1>2, <1>5 DEF NoOutputs, TempFile
<1>6. CASE CmdCompile \/ MakeSource \/ WriteSource \/ MakeOutputs \/ Clean
  <2>1. ReplyType'
        BY <1>6 DEF CmdCompile, MakeSource, WriteSource, MakeOutputs, Clean, response, ReplyType
  <2>2. AnswerType'
        BY <1>6 DEF CmdCompile, MakeSource, WriteSource, MakeOutputs, Clean, AnswerType
  <2>3. FilesType'
        BY <1>6 DEF CmdCompile, MakeSource, WriteSource, MakeOutputs, Clean, files, FilesType, TempFile
  <2> QED
    BY <1>1, <1>6, <2>1, <2>2, <2>3 DEF CmdCompile, MakeSource, WriteSource, MakeOutputs, Clean
<1>7. ASSUME NEW st \in {"done", "error"}, NEW code \in Nat, NEW bytes \in Seq(RespSym),
             Len(bytes) <= RespMax, CompileEnds(st, code, bytes), AnswerType'
      PROVE  TypeOK'
  <2>1. ReplyType'
        BY <1>7 DEF CompileEnds, ReplyType
  <2>2. FilesType'
        BY <1>7 DEF CompileEnds, files, FilesType
  <2> QED BY <1>1, <1>7, <2>1, <2>2 DEF CompileEnds
<1>8. ASSUME NEW msg \in Messages, GccFails(msg)
      PROVE  TypeOK'
  <2> DEFINE read == Prefix(msg, RespMax - 1)
  <2>1. msg \in Seq(RespSym) /\ RespMax - 1 \in Nat
        BY NetInputs, NetSizes
  <2>2. read \in Seq(RespSym) /\ Len(read) <= RespMax - 1 /\ Len(read) \in Nat
        BY <2>1, PrefixFacts
  <2>3. CompileEnds("error", 1, read)
        BY <1>8 DEF GccFails
  <2>4. answer' = [bytes |-> msg, output |-> msg, code |-> 1,
                   whole |-> Len(msg) < RespMax, coded |-> TRUE, read |-> TRUE]
        BY <1>8 DEF GccFails
  <2> HIDE DEF read
  <2>5. AnswerType'
        BY <2>1, <2>4 DEF AnswerType, Answer
  <2>6. Len(read) <= RespMax
        BY <2>2, NetSizes
  <2> QED BY <1>7, <2>2, <2>3, <2>5, <2>6
<1>9. ASSUME NEW elf \in Programs, GccSucceeds(elf)
      PROVE  TypeOK'
  <2> DEFINE read == Prefix(elf, RespMax)
  <2>1. elf \in Seq(RespSym) /\ RespMax \in Nat
        BY NetInputs, NetSizes
  <2>2. read \in Seq(RespSym) /\ Len(read) <= RespMax
        BY <2>1, PrefixFacts
  <2>3. CompileEnds("done", 0, read)
        BY <1>9 DEF GccSucceeds
  <2>4. answer' = [bytes |-> elf, output |-> elf, code |-> 0,
                   whole |-> Len(elf) <= RespMax, coded |-> TRUE, read |-> TRUE]
        BY <1>9 DEF GccSucceeds
  <2> HIDE DEF read
  <2>5. AnswerType'
        BY <2>1, <2>4 DEF AnswerType, Answer
  <2> QED BY <1>7, <2>2, <2>3, <2>5
<1>10. CASE NoElf
  <2>1. ReplyType'
        BY <1>10 DEF NoElf, ReplyType
  <2>2. AnswerType'
        BY <1>10, NothingSaidTypes DEF NoElf, AnswerType
  <2>3. FilesType'
        BY <1>10 DEF NoElf, files, FilesType
  <2> QED BY <1>1, <1>10, <2>1, <2>2, <2>3 DEF NoElf
<1>11. CASE NoMessages
  <2>1. ReplyType'
        BY <1>11 DEF NoMessages, ReplyType
  <2>2. AnswerType'
        BY <1>11, NothingSaidTypes DEF NoMessages, AnswerType
  <2>3. FilesType'
        BY <1>11 DEF NoMessages, files, FilesType
  <2> QED BY <1>1, <1>11, <2>1, <2>2, <2>3 DEF NoMessages
<1> QED BY <1>3, <1>4, <1>5, <1>6, <1>8, <1>9, <1>10, <1>11 DEF Compile

\* ... and a restart.
LEMMA RestartTypes == TypeOK /\ Restart => TypeOK'
<1> SUFFICES ASSUME TypeOK, Restart
             PROVE  TypeOK'
    OBVIOUS
<1>1. BufferType' /\ ReplyType' /\ AnswerType' /\ armed' \in BOOLEAN
      BY ClearedTypes DEF Restart
<1>2. RequestType'
      BY NothingTypes DEF Restart, RequestType
<1>3. FilesType'
      BY DEF Restart, FilesType
<1>4. FlowType'
      BY <1>1 DEF Restart, FlowType
<1> QED BY <1>1, <1>2, <1>3, <1>4, TypePartsNext

\* Every register keeps its type: no response is longer than its buffer, and
\* RESP_LEN never more than was written there.
THEOREM TypeCorrect == Spec => []TypeOK
<1>1. Init => TypeOK
  <2>1. Init => EmptyBuffer \in [Cell -> Sym]
        BY DEF EmptyBuffer, Sym
  <2>2. Init => BufferType
        BY <2>1, NetSizes DEF Init, BufferType
  <2>3. Init => ReplyType
    <3>1. <<>> \in Seq(RespSym) /\ Len(<<>>) = 0 /\ 0 \in 0 .. 0 /\ 0 <= RespMax
          BY NetSizes
    <3> QED BY <3>1 DEF Init, ReplyType
  <2>4. Init => AnswerType /\ RequestType
        BY NothingTypes, NothingSaidTypes DEF Init, AnswerType, RequestType
  <2>5. Init => FilesType /\ FlowType
        BY DEF Init, FilesType, FlowType
  <2> QED BY <2>2, <2>3, <2>4, <2>5, TypeParts
<1>2. NetInv /\ TypeOK /\ [Next]_vars => TypeOK'
      BY RegisterTypes, FetchTypes, CompileTypes, RestartTypes DEF Next
<1> QED BY <1>1, <1>2, NetInvariant, PTL DEF Spec

-----------------------------------------------------------------------------
(* What a fetch passes on.                                                 *)

\* The buffer is not written while a fetch is on its way, and when none is no
\* token is kept.
THEOREM TokenIsTheFirstLine == Spec => []RequestSplitsBuffer
<1>1. Init => RequestSplitsBuffer
      BY NothingTypes DEF Init, RequestSplitsBuffer
<1>2. ASSUME NetInv, TypeOK, RequestSplitsBuffer, [Next]_vars
      PROVE  RequestSplitsBuffer'
  <2>1. ASSUME UNCHANGED <<urlBuf, urlLen, request>>
        PROVE  RequestSplitsBuffer'
    <3>1. \A n : IsFirstNewline(n)' <=> IsFirstNewline(n)
          BY <2>1 DEF IsFirstNewline
    <3>2. \A n : Bytes(n + 1, urlLen)' = Bytes(n + 1, urlLen)
          BY <2>1 DEF Bytes
    <3> QED BY <1>2, <2>1, <3>1, <3>2 DEF RequestSplitsBuffer
  <2>2. ASSUME request'.token = <<>>
        PROVE  RequestSplitsBuffer'
        BY <2>2 DEF RequestSplitsBuffer
  <2>3. ASSUME Ready, UNCHANGED request
        PROVE  RequestSplitsBuffer'
    <3>1. request.token = <<>>
          BY <1>2, <2>3 DEF NetInv, AuthInv, Ready
    <3> QED BY <2>2, <2>3, <3>1
  <2>4. CASE \/ \E i \in Cell, data \in Data : WriteData(i, data)
             \/ \E n \in 0 .. UrlMax + 1 : WriteUrlLen(n)
             \/ \E val \in 0 .. 3 : WriteAuth(val)
             \/ CmdReset
        BY <2>3, <2>4 DEF WriteData, WriteUrlLen, WriteAuth, CmdReset, Idle
  <2>5. CASE CmdFetch
    <3>1. request' = Request /\ UNCHANGED <<urlBuf, urlLen>>
          BY <2>5 DEF CmdFetch
    <3>2. BufferType
          BY <1>2, TypeParts
    <3>3. \A n : IsFirstNewline(n)' <=> IsFirstNewline(n)
          BY <3>1 DEF IsFirstNewline
    <3>4. \A n : Bytes(n + 1, urlLen)' = Bytes(n + 1, urlLen)
          BY <3>1 DEF Bytes
    <3> QED BY <3>1, <3>2, <3>3, <3>4, RequestFacts DEF RequestSplitsBuffer
  <2>6. CASE Fetch /\ ~CmdFetch
    <3>1. FetchReturns
          BY <2>6 DEF Fetch, FetchFails, CurlBreaksOff, CurlAnswers, FetchReads
    <3>2. request'.token = <<>>
          BY <3>1, NothingTypes DEF FetchReturns
    <3> QED BY <2>2, <3>2
  <2>7. CASE Compile
    <3>1. CompileOnly
          BY <2>7 DEF Compile, CmdCompile, NoSource, MakeSource, ShortWrite, WriteSource,
             NoOutputs, MakeOutputs, GccFails, GccSucceeds, NoElf, NoMessages, Clean,
             CompileGivesUp, CompileEnds
    <3> QED BY <2>1, <3>1 DEF CompileOnly, registers
  <2>8. CASE Restart
    <3>1. request'.token = <<>>
          BY <2>8, NothingTypes DEF Restart
    <3> QED BY <2>2, <3>1
  <2>9. CASE UNCHANGED vars
        BY <2>1, <2>9 DEF vars, registers
  <2> QED BY <1>2, <2>4, <2>5, <2>6, <2>7, <2>8, <2>9 DEF Next
<1> QED BY <1>1, <1>2, NetInvariant, TypeCorrect, PTL DEF Spec

-----------------------------------------------------------------------------
(* What a command leaves in the registers.                                 *)

\* What the host made is in the registers from the step that makes it, also
\* while the files of the command are removed and until the next command has an
\* answer of its own.
AnswerInv ==
  /\ answer.read => /\ Reply = Prefix(answer.output, respLen)
                    /\ answer.whole => Reply = answer.bytes
  /\ answer.coded => respCode = answer.code

\* What is read first is a prefix of a prefix.
LEMMA PrefixOfPrefix ==
  ASSUME NEW S, NEW s \in Seq(S), NEW n \in Nat, NEW k \in 0 .. Len(Prefix(s, n))
  PROVE  SubSeq(Prefix(s, n), 1, k) = Prefix(s, k)
<1> DEFINE m == Low(n, Len(s))
           u == SubSeq(s, 1, m)
           v == SubSeq(s, 1, k)
           w == SubSeq(u, 1, k)
<1>1. m \in 0 .. Len(s)
      BY DEF Low
<1>2. Prefix(s, n) = u
      BY DEF Prefix
<1> HIDE DEF m
<1>3. u \in Seq(S) /\ Len(u) = m /\ \A i \in 1 .. m : u[i] = s[i]
      BY <1>1
<1>4. k \in 0 .. m
      BY <1>2, <1>3
<1> HIDE DEF u
<1>5. w \in Seq(S) /\ Len(w) = k /\ \A i \in 1 .. k : w[i] = u[i]
      BY <1>3, <1>4
<1>6. v \in Seq(S) /\ Len(v) = k /\ \A i \in 1 .. k : v[i] = s[i]
      BY <1>1, <1>4
<1>7. Prefix(s, k) = v
      BY <1>1, <1>4 DEF Prefix, Low
<1> HIDE DEF v, w
<1>8. w = v
      BY <1>3, <1>4, <1>5, <1>6, SeqEqual
<1> QED BY <1>2, <1>7, <1>8 DEF w

\* Nothing at all is a prefix of anything.
LEMMA NothingIsPrefix ==
  ASSUME NEW S, NEW s \in Seq(S), NEW t
  PROVE  SubSeq(t, 1, 0) = <<>> /\ Prefix(<<>>, 0) = <<>>
<1>1. Low(0, 0) = 0 BY DEF Low
<1>2. Prefix(<<>>, 0) = SubSeq(<<>>, 1, 0) BY <1>1 DEF Prefix
<1> QED BY <1>2

\* An error leaves nothing to read, whatever is in the buffer.
LEMMA ErrorAnswered ==
  ASSUME NEW c \in Nat, answer' = NothingSaid(c, TRUE), respLen' = 0, respCode' = c
  PROVE  AnswerInv'
<1>1. answer'.bytes = <<>> /\ answer'.output = <<>> /\ answer'.code = c
      BY DEF NothingSaid
<1>2. Reply' = <<>> /\ Prefix(<<>>, 0) = <<>>
  <2>1. <<>> \in Seq({}) OBVIOUS
  <2> QED BY <2>1, NothingIsPrefix DEF Reply
<1> QED BY <1>1, <1>2 DEF AnswerInv

\* No code was sent and no message read: the code tells of the error.
LEMMA UnreadAnswered ==
  ASSUME NEW c \in Nat, answer' = NothingSaid(c, FALSE), respCode' = c
  PROVE  AnswerInv'
  BY DEF AnswerInv, NothingSaid

\* A step that leaves the registers of the answer alone.
LEMMA AnswerStays ==
  AnswerInv /\ UNCHANGED <<respLen, respCode, respBuf, answer>> => AnswerInv'
  BY DEF AnswerInv, Reply

\* What is read of curl's output is its beginning.
LEMMA FetchReadsPrefix ==
  ASSUME NEW out \in Seq(RespSym), FetchReads(out)
  PROVE  Reply' = Prefix(out, respLen')
<1> DEFINE room == RespMax - CodeRoom
           in == Prefix(out, room)
<1>1. room \in Nat
      BY NetSizes
<1>2. respBuf' = in /\ respLen' = Parse(in).len
      BY DEF FetchReads
<1> HIDE DEF room
<1>3. in \in Seq(RespSym)
      BY <1>1, PrefixFacts
<1>4. Parse(in).len \in 0 .. Len(in)
  <2> HIDE DEF in
  <2> QED BY <1>3, ParseTypes
<1>5. SubSeq(in, 1, respLen') = Prefix(out, respLen')
      BY <1>1, <1>2, <1>4, PrefixOfPrefix
<1> HIDE DEF in
<1> QED BY <1>2, <1>5 DEF Reply

\* The body and the code of a fetch, all of them when they fit.
LEMMA FetchAnswered ==
  ASSUME NEW body \in Bodies, NEW code \in Codes, CurlAnswers(body, code)
  PROVE  AnswerInv'
<1> DEFINE out == CurlOutput(body, code)
           room == RespMax - CodeRoom
<1>1. body \in Seq(RespSym) /\ code \in Seq(Digit) /\ Len(code) \in 1 .. CodeRoom - 1
      BY NetInputs
<1>2. /\ out \in Seq(RespSym)
      /\ Parse(out) = [len |-> Len(body), code |-> Atoi(code, 0)]
      /\ SubSeq(out, 1, Len(body)) = body
      BY <1>1, CurlOutputParsed
<1>3. /\ FetchReads(out) /\ respBuf' = Prefix(out, room)
      /\ respLen' = Parse(respBuf').len /\ respCode' = Parse(respBuf').code
      /\ answer' = [bytes |-> body, output |-> out, code |-> Atoi(code, 0),
                    whole |-> Fits(out), coded |-> Fits(out), read |-> TRUE]
      BY DEF CurlAnswers, FetchReads
<1>4. room \in Nat
      BY NetSizes
<1>5. Fits(out) <=> Len(out) <= room
      BY DEF Fits
<1> HIDE DEF out, room
<1>6. ASSUME Len(out) <= room
      PROVE  Reply' = body /\ respCode' = Atoi(code, 0)
  <2>1. respBuf' = out
        BY <1>2, <1>3, <1>4, <1>6, PrefixFacts
  <2>2. respLen' = Len(body) /\ respCode' = Atoi(code, 0)
        BY <1>2, <1>3, <2>1
  <2> QED BY <1>2, <2>1, <2>2 DEF Reply
<1>7. Reply' = Prefix(out, respLen')
      BY <1>2, <1>3, FetchReadsPrefix
<1>8. /\ answer'.bytes = body /\ answer'.output = out /\ answer'.code = Atoi(code, 0)
      /\ (answer'.whole <=> Fits(out)) /\ (answer'.coded <=> Fits(out))
      BY <1>3
<1> QED BY <1>5, <1>6, <1>7, <1>8 DEF AnswerInv

\* What arrived before curl broke off.
LEMMA BrokenOffAnswered ==
  ASSUME NEW body \in Bodies, NEW code \in Codes, NEW n \in Nat,
         CurlBreaksOff(body, code, n)
  PROVE  AnswerInv'
<1> DEFINE out == Prefix(CurlOutput(body, code), n)
<1>1. body \in Seq(RespSym) /\ code \in Seq(Digit) /\ Len(code) \in 1 .. CodeRoom - 1
      BY NetInputs
<1>2. CurlOutput(body, code) \in Seq(RespSym)
      BY <1>1, CurlOutputParsed
<1>3. out \in Seq(RespSym)
      BY <1>2, PrefixFacts
<1>4. /\ FetchReads(out)
      /\ answer' = [bytes |-> body, output |-> out, code |-> 0,
                    whole |-> FALSE, coded |-> FALSE, read |-> TRUE]
      BY DEF CurlBreaksOff
<1> HIDE DEF out
<1>5. Reply' = Prefix(out, respLen')
      BY <1>3, <1>4, FetchReadsPrefix
<1>6. answer'.output = out /\ ~answer'.whole /\ ~answer'.coded
      BY <1>4
<1> QED BY <1>5, <1>6 DEF AnswerInv

\* What the compiler wrote, all of it when it fits.
LEMMA CompileAnswered ==
  ASSUME NEW st, NEW code, NEW bytes \in Seq(RespSym), NEW room \in Nat,
         CompileEnds(st, code, Prefix(bytes, room)),
         answer'.bytes = bytes, answer'.output = bytes, answer'.code = code,
         answer'.whole => Len(bytes) <= room
  PROVE  AnswerInv'
<1> DEFINE read == Prefix(bytes, room)
<1>1. respBuf' = read /\ respLen' = Len(read) /\ respCode' = code
      BY DEF CompileEnds
<1>2. Len(bytes) <= room => read = bytes
      BY PrefixFacts
<1>3. SubSeq(bytes, 1, Len(bytes)) = bytes
      OBVIOUS
<1>4. SubSeq(read, 1, Len(read)) = Prefix(bytes, Len(read))
  <2>1. Len(read) \in 0 .. Len(read)
        BY PrefixFacts
  <2> QED BY <2>1, PrefixOfPrefix
<1> HIDE DEF read
<1> QED BY <1>1, <1>2, <1>3, <1>4 DEF AnswerInv, Reply

\* The registers hold the answer in every reachable state.
THEOREM AnswerHeld == Spec => []AnswerInv
<1>1. Init => AnswerInv
  <2> SUFFICES ASSUME Init PROVE AnswerInv
      OBVIOUS
  <2>1. <<>> \in Seq({}) OBVIOUS
  <2>2. SubSeq(<<>>, 1, 0) = <<>> /\ Prefix(<<>>, 0) = <<>>
        BY <2>1, NothingIsPrefix
  <2>3. /\ respBuf = <<>> /\ respLen = 0 /\ respCode = 0
        /\ answer.output = <<>> /\ answer.bytes = <<>> /\ answer.code = 0
    <3>1. respBuf = <<>> /\ respLen = 0 /\ respCode = 0 /\ answer = NothingSaid(0, TRUE)
          BY DEF Init
    <3>2. answer.output = <<>> /\ answer.bytes = <<>> /\ answer.code = 0
          BY <3>1 DEF NothingSaid
    <3> QED BY <3>1, <3>2
  <2>4. Reply = <<>>
    <3>1. Reply = SubSeq(respBuf, 1, respLen) BY DEF Reply
    <3> QED BY <2>2, <2>3, <3>1
  <2>5. Prefix(answer.output, respLen) = <<>> BY <2>2, <2>3
  <2> QED BY <2>3, <2>4, <2>5 DEF AnswerInv
<1>2. ASSUME AnswerInv, [Next]_vars
      PROVE  AnswerInv'
  <2>1. CASE \/ \E i \in Cell, data \in Data : WriteData(i, data)
             \/ \E n \in 0 .. UrlMax + 1 : WriteUrlLen(n)
             \/ \E val \in 0 .. 3 : WriteAuth(val)
             \/ CmdFetch
    <3>1. UNCHANGED <<respLen, respCode, respBuf, answer>>
          BY <2>1 DEF WriteData, WriteUrlLen, WriteAuth, CmdFetch, Idle, response
    <3> QED BY <1>2, <3>1, AnswerStays
  <2>2. CASE \/ CmdCompile \/ MakeSource \/ WriteSource \/ MakeOutputs
             \/ Clean \/ UNCHANGED vars
    <3>1. UNCHANGED <<respLen, respCode, respBuf, answer>>
          BY <2>2 DEF CmdCompile, MakeSource, WriteSource, MakeOutputs, Clean, vars, response
    <3> QED BY <1>2, <3>1, AnswerStays
  <2>3. CASE CmdReset \/ Restart \/ FetchFails
    <3>1. answer' = NothingSaid(0, TRUE) /\ respLen' = 0 /\ respCode' = 0
          BY <2>3 DEF CmdReset, Restart, Cleared, FetchFails
    <3> QED BY <3>1, ErrorAnswered
  <2>4. CASE NoMessages
    <3>1. answer' = NothingSaid(1, FALSE) /\ respCode' = 1
          BY <2>4 DEF NoMessages
    <3> QED BY <3>1, UnreadAnswered
  <2>5. ASSUME NEW kept, CompileGivesUp(kept)
        PROVE  AnswerInv'
        BY <2>5, ErrorAnswered DEF CompileGivesUp
  <2>6. CASE NoSource \/ ShortWrite \/ \E made \in SUBSET {"elf", "err"} : NoOutputs(made)
        BY <2>5, <2>6 DEF NoSource, ShortWrite, NoOutputs
  <2>7. CASE NoElf
        BY <2>7, ErrorAnswered DEF NoElf
  <2>8. ASSUME NEW body \in Bodies, NEW code \in Codes,
               \/ CurlAnswers(body, code)
               \/ \E n \in 0 .. Len(CurlOutput(body, code)) - 1 : CurlBreaksOff(body, code, n)
        PROVE  AnswerInv'
    <3>1. \A n \in 0 .. Len(CurlOutput(body, code)) - 1 : n \in Nat
          OBVIOUS
    <3> QED BY <2>8, <3>1, FetchAnswered, BrokenOffAnswered
  <2>9. ASSUME NEW msg \in Messages, GccFails(msg)
        PROVE  AnswerInv'
    <3> DEFINE room == RespMax - 1
    <3>1. /\ CompileEnds("error", 1, Prefix(msg, room))
          /\ answer' = [bytes |-> msg, output |-> msg, code |-> 1,
                        whole |-> Len(msg) < RespMax, coded |-> TRUE, read |-> TRUE]
          BY <2>9 DEF GccFails
    <3>2. msg \in Seq(RespSym) /\ room \in Nat
          BY NetInputs, NetSizes
    <3>3. /\ answer'.bytes = msg /\ answer'.output = msg /\ answer'.code = 1
          /\ answer'.whole => Len(msg) < RespMax
          BY <3>1
    <3>4. answer'.whole => Len(msg) <= room
          BY <3>2, <3>3, NetSizes
    <3> HIDE DEF room
    <3> QED BY <3>1, <3>2, <3>3, <3>4, CompileAnswered
  <2>10. ASSUME NEW elf \in Programs, GccSucceeds(elf)
         PROVE  AnswerInv'
    <3>1. /\ CompileEnds("done", 0, Prefix(elf, RespMax))
          /\ answer' = [bytes |-> elf, output |-> elf, code |-> 0,
                        whole |-> Len(elf) <= RespMax, coded |-> TRUE, read |-> TRUE]
          BY <2>10 DEF GccSucceeds
    <3>2. elf \in Seq(RespSym) /\ RespMax \in Nat
          BY NetInputs, NetSizes
    <3>3. /\ answer'.bytes = elf /\ answer'.output = elf /\ answer'.code = 0
          /\ answer'.whole => Len(elf) <= RespMax
          BY <3>1
    <3> QED BY <3>1, <3>2, <3>3, CompileAnswered
  <2> QED
    BY <1>2, <2>1, <2>2, <2>3, <2>4, <2>6, <2>7, <2>8, <2>9, <2>10
    DEF Next, Fetch, Compile
<1> QED BY <1>1, <1>2, PTL DEF Spec

\* The guest reads the beginning of what the host made for its last command, and
\* all of it where there was room, whatever newlines the body has and whatever
\* answers came before; messages that could not be opened are excepted.
THEOREM ReplyIsRead == Spec => []ReplyIsTheCommands
<1>1. AnswerInv => ReplyIsTheCommands
      BY DEF AnswerInv, ReplyIsTheCommands
<1> QED BY <1>1, AnswerHeld, PTL

\* RESP_CODE is the code curl wrote, when the device could read it, or says how
\* the compilation ended.
THEOREM CodeIsRead == Spec => []CodeIsTheCommands
<1>1. AnswerInv => CodeIsTheCommands
      BY DEF AnswerInv, CodeIsTheCommands
<1> QED BY <1>1, AnswerHeld, PTL
=============================================================================
