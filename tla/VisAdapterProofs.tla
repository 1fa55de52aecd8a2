--------------------------- MODULE VisAdapterProofs ---------------------------
(***************************************************************************)
(* Theorems about VisAdapter, for every script, every database and every   *)
(* number of failing steps.                                                *)
(*                                                                         *)
(* What the server has still to take is one stream, however it is divided  *)
(* between the script, the socket and the call that is being received      *)
(* (Pending).  Two facts about it carry both theorems: it parses into      *)
(* calls from its first frame on (Framed), wherever it is cut, and while   *)
(* the script lives it is one of few, each with the statement and the      *)
(* answers that go with it (Served).                                       *)
(***************************************************************************)
EXTENDS VisAdapter, Lemmas, SequenceTheorems

Words == {"stmt", "bind", "column", "step", "finalize", "exit"}
            \cup Types \cup DOMAIN NumRows
Frame == [type : Types, val : Nat \cup Seq(Words)]

LEMMA FrameOf ==
    /\ \A verb \in {"stmt", "step", "finalize", "exit"} : Cmd(verb) \in Frame
    /\ \A verb \in {"bind", "column"}, type \in Types : TypedCmd(verb, type) \in Frame
    /\ \A sql \in DOMAIN NumRows : Text(<<sql>>) \in Frame
    /\ \A n \in Nat : Number(n) \in Frame
    /\ [type : Types, val : Nat] \subseteq Frame
<1>1. \A w \in Words : <<w>> \in Seq(Words)
  OBVIOUS
<1>2. \A v, w \in Words : <<v, w>> \in Seq(Words)
  OBVIOUS
<1>3. "text" \in Types /\ "int" \in Types
  BY DEF Types
<1>4. \A words \in Seq(Words) : Text(words) \in Frame
  BY <1>3 DEF Text, Frame
<1>5. /\ \A verb \in {"stmt", "step", "finalize", "exit", "bind", "column"} : verb \in Words
      /\ \A type \in Types : type \in Words
      /\ \A sql \in DOMAIN NumRows : sql \in Words
  BY DEF Words
<1>6. \A verb \in {"stmt", "step", "finalize", "exit"} : Cmd(verb) \in Frame
  BY <1>1, <1>4, <1>5 DEF Cmd
<1>7. \A verb \in {"bind", "column"}, type \in Types : TypedCmd(verb, type) \in Frame
  BY <1>2, <1>4, <1>5 DEF TypedCmd
<1>8. \A sql \in DOMAIN NumRows : Text(<<sql>>) \in Frame
  BY <1>1, <1>4, <1>5
<1>9. \A n \in Nat : Number(n) \in Frame
  BY <1>3 DEF Number, Frame
<1>10. [type : Types, val : Nat] \subseteq Frame
  BY DEF Frame
<1> QED BY <1>6, <1>7, <1>8, <1>9, <1>10

NumArguments(cmd) == Len(Arguments(cmd))

LEMMA FewArguments == \A cmd : NumArguments(cmd) \in 0 .. 2
<1>1. \A cmd : \/ Arguments(cmd) = <<"text">>
               \/ Arguments(cmd) = <<"int", cmd[2]>>
               \/ Arguments(cmd) = <<"int">>
               \/ Arguments(cmd) = << >>
  BY DEF Arguments
<1> QED BY <1>1 DEF NumArguments

LEMMA ArgumentsOf ==
    /\ Arguments(<<"stmt">>) = <<"text">>
    /\ \A type : Arguments(<<"bind", type>>) = <<"int", type>>
    /\ \A type : Arguments(<<"column", type>>) = <<"int">>
    /\ \A verb \in {"step", "finalize", "exit"} : Arguments(<<verb>>) = << >>
    /\ NumArguments(<<"stmt">>) = 1
    /\ \A type : NumArguments(<<"bind", type>>) = 2 /\ NumArguments(<<"column", type>>) = 1
    /\ \A verb \in {"step", "finalize", "exit"} : NumArguments(<<verb>>) = 0
<1> QED BY DEF Arguments, NumArguments

LEMMA ConcatIs ==
    ASSUME NEW S, NEW s \in Seq(S), NEW t \in Seq(S)
    PROVE  /\ Len(s) \in Nat /\ Len(t) \in Nat
           /\ s \o t \in Seq(S) /\ Len(s \o t) = Len(s) + Len(t)
           /\ \A i \in 1 .. Len(s) : (s \o t)[i] = s[i]
           /\ \A i \in 1 .. Len(t) : (s \o t)[Len(s) + i] = t[i]
<1>1. \A i \in 1 .. Len(t) : Len(s) + i \in 1 .. Len(s) + Len(t) /\ ~ (Len(s) + i <= Len(s))
  OBVIOUS
<1>2. \A i \in 1 .. Len(t) : (s \o t)[Len(s) + i] = t[(Len(s) + i) - Len(s)]
  BY <1>1, ConcatProperties
<1>3. \A i \in 1 .. Len(t) : (Len(s) + i) - Len(s) = i
  OBVIOUS
<1>4. \A i \in 1 .. Len(s) : (s \o t)[i] = s[i]
  OBVIOUS
<1> QED BY <1>2, <1>3, <1>4, ConcatProperties

(***************************************************************************)
(* Streams that parse into calls                                           *)
(***************************************************************************)
(* The calls of a stream of n frames begin after the frames of B: each is  *)
(* a command and then its arguments, as far as the stream goes, and where  *)
(* it ends the next one begins.                                            *)
CallAfter(b, p, n, B) ==
    /\ p[b + 1].type = "text"
    /\ \A i \in 1 .. NumArguments(p[b + 1].val) :
          b + 1 + i <= n => p[b + 1 + i].type = Arguments(p[b + 1].val)[i]
    /\ LET next == b + 1 + NumArguments(p[b + 1].val) IN next <= n => next \in B
Framed(p, n) ==
    \E B \in SUBSET (0 .. n) : 0 \in B /\ \A b \in B : b < n => CallAfter(b, p, n, B)

LEMMA PrefixFramed ==
    ASSUME NEW p, NEW n \in Nat, Framed(p, n), NEW q, NEW l \in 0 .. n,
           \A k \in 1 .. l : q[k] = p[k]
    PROVE  Framed(q, l)
<1>1. PICK B \in SUBSET (0 .. n) : 0 \in B /\ \A b \in B : b < n => CallAfter(b, p, n, B)
  BY DEF Framed
<1> DEFINE C == {b \in B : b <= l}
<1>2. C \in SUBSET (0 .. l) /\ 0 \in C
  <2>1. \A b \in B : b \in Nat
    BY <1>1
  <2>2. \A b \in C : b \in 0 .. l
    BY <2>1
  <2>3. 0 \in C
    BY <1>1
  <2> HIDE DEF C
  <2> QED BY <2>2, <2>3
<1>3. ASSUME NEW b \in C, b < l PROVE CallAfter(b, q, l, C)
  <2>1. b \in Nat /\ b \in B /\ b < n /\ b + 1 \in 1 .. l
    <3>1. b \in 0 .. l /\ b \in B /\ l <= n
      BY <1>2
    <3> HIDE DEF C
    <3> QED BY <3>1, <1>3
  <2>2. CallAfter(b, p, n, B) /\ q[b + 1] = p[b + 1]
    BY <1>1, <2>1
  <2>3. NumArguments(p[b + 1].val) \in 0 .. 2
    BY FewArguments
  <2>4. ASSUME NEW i \in 1 .. NumArguments(p[b + 1].val), b + 1 + i <= l
        PROVE  q[b + 1 + i].type = Arguments(p[b + 1].val)[i]
    <3>1. b + 1 + i <= n /\ b + 1 + i \in 1 .. l
      BY <2>1, <2>3, <2>4
    <3> QED BY <2>2, <3>1 DEF CallAfter
  <2>5. ASSUME b + 1 + NumArguments(p[b + 1].val) <= l
        PROVE  b + 1 + NumArguments(p[b + 1].val) \in C
    <3>1. b + 1 + NumArguments(p[b + 1].val) <= n
      BY <2>1, <2>3, <2>5
    <3> QED BY <2>2, <2>5, <3>1 DEF CallAfter
  <2> QED BY <2>2, <2>4, <2>5 DEF CallAfter
<1> QED BY <1>2, <1>3 DEF Framed

(* The first call, whether it is complete or not.                          *)
LEMMA FirstCall ==
    ASSUME NEW p, NEW n \in Nat, Framed(p, n), NEW c \in 1 .. n,
           c - 1 <= NumArguments(p[1].val)
    PROVE  p[c].type = IF c = 1 THEN "text" ELSE Arguments(p[1].val)[c - 1]
<1>1. PICK B \in SUBSET (0 .. n) : 0 \in B /\ \A b \in B : b < n => CallAfter(b, p, n, B)
  BY DEF Framed
<1>2. CallAfter(0, p, n, B) /\ 0 + 1 = 1 /\ NumArguments(p[1].val) \in 0 .. 2
  BY <1>1, FewArguments
<1>3. CASE c = 1
  BY <1>2, <1>3 DEF CallAfter
<1>4. CASE c # 1
  <2>1. c - 1 \in 1 .. NumArguments(p[1].val) /\ 0 + 1 + (c - 1) = c
    BY <1>2, <1>4
  <2> QED BY <1>2, <1>4, <2>1 DEF CallAfter
<1> QED BY <1>3, <1>4

LEMMA DropFramed ==
    ASSUME NEW p, NEW n \in Nat, Framed(p, n), NEW m \in 1 .. n,
           m = 1 + NumArguments(p[1].val), NEW q, \A k \in 1 .. n - m : q[k] = p[m + k]
    PROVE  Framed(q, n - m)
<1>1. PICK B \in SUBSET (0 .. n) : 0 \in B /\ \A b \in B : b < n => CallAfter(b, p, n, B)
  BY DEF Framed
<1> DEFINE C == {b \in 0 .. n - m : m + b \in B}
<1>2. m + 0 \in B
  <2>1. CallAfter(0, p, n, B) /\ 0 + 1 = 1 /\ NumArguments(p[1].val) \in 0 .. 2
    BY <1>1, FewArguments
  <2> QED BY <2>1 DEF CallAfter
<1>3. C \in SUBSET (0 .. n - m) /\ 0 \in C
  BY <1>2
<1>4. ASSUME NEW b \in C, b < n - m PROVE CallAfter(b, q, n - m, C)
  <2>1. b \in Nat /\ m + b \in B /\ m + b < n /\ b + 1 \in 1 .. n - m /\ m + (b + 1) = m + b + 1
    BY <1>4
  <2>2. CallAfter(m + b, p, n, B) /\ q[b + 1] = p[m + b + 1]
    BY <1>1, <2>1
  <2> DEFINE args == NumArguments(p[m + b + 1].val)
  <2>3. args \in 0 .. 2
    BY FewArguments
  <2> HIDE DEF C
  <2>4. ASSUME NEW i \in 1 .. args, b + 1 + i <= n - m
        PROVE  q[b + 1 + i].type = Arguments(p[m + b + 1].val)[i]
    <3>1. /\ i \in Nat /\ m + b + 1 + i <= n
          /\ b + 1 + i \in 1 .. n - m /\ m + (b + 1 + i) = m + b + 1 + i
      BY <2>1, <2>3, <2>4
    <3>2. q[b + 1 + i] = p[m + b + 1 + i]
      BY <3>1
    <3> QED BY <2>2, <3>1, <3>2 DEF CallAfter
  <2>5. ASSUME b + 1 + args <= n - m PROVE b + 1 + args \in C
    <3>1. /\ m + b + 1 + args <= n
          /\ b + 1 + args \in 0 .. n - m /\ m + (b + 1 + args) = m + b + 1 + args
      BY <2>1, <2>3, <2>5
    <3>2. m + b + 1 + args \in B
      BY <2>2, <3>1 DEF CallAfter
    <3> QED BY <3>1, <3>2 DEF C
  <2> QED BY <2>2, <2>4, <2>5 DEF CallAfter
<1> QED BY <1>3, <1>4 DEF Framed

(* What follows a call without arguments may be any stream that parses.    *)
LEMMA PrefixedFramed ==
    ASSUME NEW p, NEW n \in Nat, Framed(p, n), NEW verb \in {"step", "finalize", "exit"},
           NEW q, q[1] = Cmd(verb), \A k \in 1 .. n : q[k + 1] = p[k]
    PROVE  Framed(q, n + 1)
<1>1. PICK B \in SUBSET (0 .. n) : 0 \in B /\ \A b \in B : b < n => CallAfter(b, p, n, B)
  BY DEF Framed
<1> DEFINE C == {0} \cup {b + 1 : b \in B}
<1>2. C \in SUBSET (0 .. n + 1) /\ 0 \in C
  BY <1>1
<1>3. CallAfter(0, q, n + 1, C)
  <2>1. q[0 + 1].val = <<verb>> /\ q[0 + 1].type = "text"
    BY DEF Cmd, Text
  <2>2. NumArguments(q[0 + 1].val) = 0
    BY <2>1, ArgumentsOf
  <2>3. 0 + 1 + 0 \in C
    BY <1>1
  <2> QED BY <2>1, <2>2, <2>3 DEF CallAfter
<1>4. ASSUME NEW b \in B, b < n PROVE CallAfter(b + 1, q, n + 1, C)
  <2>1. b \in Nat /\ b + 1 \in 1 .. n
    BY <1>4
  <2>2. CallAfter(b, p, n, B) /\ q[b + 1 + 1] = p[b + 1]
    BY <1>1, <1>4, <2>1
  <2> DEFINE args == NumArguments(p[b + 1].val)
  <2>3. args \in 0 .. 2
    BY FewArguments
  <2>4. ASSUME NEW i \in 1 .. args, b + 1 + 1 + i <= n + 1
        PROVE  q[b + 1 + 1 + i].type = Arguments(p[b + 1].val)[i]
    <3>1. b + 1 + i <= n /\ b + 1 + i \in 1 .. n /\ (b + 1 + i) + 1 = b + 1 + 1 + i
      BY <2>1, <2>3, <2>4
    <3>2. q[b + 1 + 1 + i] = p[b + 1 + i]
      BY <3>1
    <3> QED BY <2>2, <3>1, <3>2 DEF CallAfter
  <2>5. ASSUME b + 1 + 1 + args <= n + 1 PROVE b + 1 + 1 + args \in C
    <3>1. b + 1 + args <= n /\ (b + 1 + args) + 1 = b + 1 + 1 + args
      BY <2>1, <2>3, <2>5
    <3>2. b + 1 + args \in B
      BY <2>2, <3>1 DEF CallAfter
    <3> QED BY <3>1, <3>2
  <2> HIDE DEF C
  <2> QED BY <2>2, <2>4, <2>5 DEF CallAfter
<1>5. ASSUME NEW c \in C, c < n + 1 PROVE CallAfter(c, q, n + 1, C)
  BY <1>3, <1>4, <1>5
<1> HIDE DEF C
<1> QED BY <1>2, <1>5 DEF Framed

(* A single call, complete.                                                *)
LEMMA CallFramed ==
    ASSUME NEW p, NEW n \in Nat, n = 1 + NumArguments(p[1].val), p[1].type = "text",
           \A i \in 1 .. n - 1 : p[1 + i].type = Arguments(p[1].val)[i]
    PROVE  Framed(p, n)
<1> DEFINE B == {0, n}
<1>1. B \in SUBSET (0 .. n) /\ 0 \in B
  OBVIOUS
<1>2. ASSUME NEW b \in B, b < n PROVE CallAfter(b, p, n, B)
  <2>1. b = 0 /\ b + 1 = 1 /\ NumArguments(p[1].val) \in 0 .. 2
    BY <1>2, FewArguments
  <2>2. \A i \in 1 .. NumArguments(p[1].val) : p[0 + 1 + i].type = Arguments(p[1].val)[i]
    BY <2>1
  <2>3. 0 + 1 + NumArguments(p[1].val) = n
    BY <2>1
  <2> QED BY <2>1, <2>2, <2>3 DEF CallAfter
<1> QED BY <1>1, <1>2 DEF Framed

(***************************************************************************)
(* The opening of a select                                                 *)
(***************************************************************************)
LEMMA FlattenSteps ==
    ASSUME NEW S, NEW seqs \in Seq(Seq(S))
    PROVE  \E run \in [0 .. Len(seqs) -> Seq(S)] :
               /\ run[0] = << >>
               /\ \A k \in 1 .. Len(seqs) : run[k] = run[k - 1] \o seqs[k]
               /\ FlattenSeq(seqs) = run[Len(seqs)]
<1> DEFINE n == Len(seqs)
           D == Seq(S)
           step == [x \in (1 .. n) \X D |-> x[2] \o seqs[x[1]]]
           body(f) == [i \in 1 .. n |-> IF i = 1 THEN seqs[i] ELSE f[i - 1] \o seqs[i]]
           flatten == CHOOSE f : f = body(f)
<1>1. n \in Nat /\ << >> \in D /\ \A k \in 1 .. n : seqs[k] \in D
  OBVIOUS
<1>2. step \in [(1 .. n) \X D -> D]
  <2>1. ASSUME NEW k \in 1 .. n, NEW s \in D PROVE s \o seqs[k] \in D
    <3>1. seqs[k] \in Seq(S) /\ s \in Seq(S)
      BY <1>1
    <3> QED BY <3>1
  <2> HIDE DEF n, D
  <2> QED BY <2>1
<1>3. PICK run \in [0 .. n -> D] : Rounds(n, << >>, step, run)
  <2> HIDE DEF step, n, D
  <2> QED BY <1>1, <1>2, RunExists
<1>4. run[0] = << >> /\ \A k \in 1 .. n : run[k] = run[k - 1] \o seqs[k]
  <2> HIDE DEF n, D
  <2>1. \A k \in 1 .. n : k - 1 \in 0 .. n
    BY <1>1
  <2>2. \A k \in 1 .. n : step[<<k, run[k - 1]>>] = run[k - 1] \o seqs[k]
    BY <2>1
  <2> HIDE DEF step
  <2> QED BY <1>3, <2>2 DEF Rounds
<1>5. n > 0 => run[1] = seqs[1]
  <2> SUFFICES ASSUME n > 0 PROVE run[1] = seqs[1]
    OBVIOUS
  <2>1. 1 \in 1 .. n /\ 1 - 1 = 0
    BY <1>1
  <2>2. run[1] = << >> \o seqs[1] /\ seqs[1] \in Seq(S)
    BY <1>1, <1>4, <2>1
  <2> QED BY <2>2, ConcatEmptySeq
<1> DEFINE part == [i \in 1 .. n |-> run[i]]
<1>6. part = body(part)
  <2> HIDE DEF n, D
  <2>1. ASSUME NEW i \in 1 .. n PROVE part[i] = body(part)[i]
    <3>1. CASE i = 1
      BY <3>1, <1>1, <1>5
    <3>2. CASE i # 1
      <4>1. i - 1 \in 1 .. n
        BY <3>2, <1>1
      <4> QED BY <3>2, <4>1, <1>4
    <3> QED BY <3>1, <3>2
  <2> QED BY <2>1
<1>7. flatten = body(flatten)
  BY <1>6
<1>8. FlattenSeq(seqs) = IF n = 0 THEN seqs ELSE flatten[n]
  BY DEF FlattenSeq
<1> HIDE DEF flatten, n, D, part
<1> DEFINE T == {k \in 0 .. n : k > 0 => flatten[k] = run[k]}
<1>9. 0 .. n \subseteq T
  <2>1. 0 \in T
    BY <1>1
  <2>2. ASSUME NEW k \in 1 .. n, k - 1 \in T PROVE k \in T
    <3>1. flatten[k] = IF k = 1 THEN seqs[k] ELSE flatten[k - 1] \o seqs[k]
      BY <1>7
    <3>2. CASE k = 1
      BY <3>1, <3>2, <1>1, <1>5
    <3>3. CASE k # 1
      <4>1. flatten[k - 1] = run[k - 1]
        BY <2>2, <3>3
      <4>2. run[k] = run[k - 1] \o seqs[k]
        BY <1>4
      <4>3. flatten[k] = run[k]
        BY <3>1, <3>3, <4>1, <4>2
      <4> QED BY <4>3
    <3> QED BY <3>2, <3>3
  <2> HIDE DEF T
  <2> QED BY <1>1, <2>1, <2>2, RoundsInduction
<1>10. FlattenSeq(seqs) = run[n]
  <2>1. CASE n = 0
    <3>1. seqs = << >>
      BY <2>1 DEF n
    <3> QED BY <1>4, <1>8, <2>1, <3>1
  <2>2. CASE n # 0
    <3>1. n \in 0 .. n /\ n > 0
      BY <1>1, <2>2
    <3> QED BY <1>8, <1>9, <2>2, <3>1
  <2> QED BY <2>1, <2>2
<1> QED BY <1>4, <1>10 DEF n, D

Params == [type : Types, val : Nat]

LEMMA SendableIs ==
    ASSUME NEW params \in Seq(Params)
    PROVE  /\ Raises(params) => /\ Sendable(params) \in 1 .. Len(params)
                                /\ params[Sendable(params)].type = "text"
           /\ ~ Raises(params) => Sendable(params) = Len(params)
           /\ \A i \in 1 .. Sendable(params) :
                 params[i].type = "text" <=> i = Sendable(params) /\ Raises(params)
           /\ Sendable(params) \in 0 .. Len(params)
<1> DEFINE texts == {i \in 1 .. Len(params) : params[i].type = "text"}
<1>1. texts \in SUBSET Nat /\ DOMAIN params = 1 .. Len(params) /\ Len(params) \in Nat
  OBVIOUS
<1>2. Raises(params) <=> texts # {}
  BY <1>1 DEF Raises
<1>3. Sendable(params) = LET text == IF texts # {} THEN Min(texts) ELSE 0
                         IN IF text = 0 THEN Len(params) ELSE text
  BY DEF Sendable, SelectInSeq
<1>4. ASSUME texts # {}
      PROVE  /\ Sendable(params) \in texts
             /\ \A i \in texts : Sendable(params) <= i
  <2>1. PICK x \in texts : \A y \in texts : x <= y
    BY <1>1, <1>4, NatMinimum
  <2>2. Min(texts) \in texts /\ \A y \in texts : Min(texts) <= y
    BY <2>1 DEF Min
  <2>3. Min(texts) # 0
    BY <2>2
  <2> QED BY <1>3, <1>4, <2>2, <2>3
<1>5. CASE texts # {}
  BY <1>1, <1>2, <1>4, <1>5
<1>6. CASE texts = {}
  <2>1. ~ Raises(params) /\ Sendable(params) = Len(params)
    BY <1>2, <1>3, <1>6
  <2>2. \A i \in 1 .. Len(params) : params[i].type # "text"
    BY <1>6
  <2>3. \A i \in 1 .. Sendable(params) :
           params[i].type = "text" <=> i = Sendable(params) /\ Raises(params)
    BY <2>1, <2>2
  <2>4. Sendable(params) \in 0 .. Len(params)
    BY <1>1, <2>1
  <2> HIDE DEF texts
  <2> QED BY <2>1, <2>3, <2>4
<1> QED BY <1>5, <1>6

LEMMA BindIs ==
    ASSUME NEW i \in Nat, NEW param \in Params
    PROVE  /\ Bind(i, param) \in Seq(Frame)
           /\ Len(Bind(i, param)) = IF param.type = "text" THEN 2 ELSE 3
           /\ Bind(i, param)[1] = TypedCmd("bind", param.type)
           /\ Bind(i, param)[2] = Number(i)
           /\ param.type # "text" => Bind(i, param)[3] = param
<1> DEFINE a == TypedCmd("bind", param.type)
           b == Number(i)
<1>1. a \in Frame /\ b \in Frame /\ param \in Frame
  BY FrameOf DEF Params
<1>2. Bind(i, param) = <<a, b>> \o (IF param.type = "text" THEN << >> ELSE <<param>>)
  BY DEF Bind
<1> HIDE DEF a, b
<1>3. CASE param.type = "text"
  <2>1. Bind(i, param) = <<a, b>> \o << >>
    BY <1>2, <1>3
  <2> QED BY <1>1, <1>3, <2>1 DEF a, b
<1>4. CASE param.type # "text"
  <2>1. Bind(i, param) = <<a, b>> \o <<param>>
    BY <1>2, <1>4
  <2> QED BY <1>1, <1>4, <2>1 DEF a, b
<1> QED BY <1>3, <1>4

LEMMA SelectIs ==
    ASSUME NEW select \in Selects
    PROVE  /\ select.params \in Seq(Params) /\ select.sql \in DOMAIN NumRows
           /\ select.cols \in Seq(Types) /\ Len(select.cols) \in Nat \ {0}
<1>1. select.cols \in Seq(Types) /\ select.cols # << >>
  BY DEF Selects
<1>2. Len(select.cols) \in Nat \ {0}
  BY <1>1, EmptySeq
<1> QED BY <1>1, <1>2 DEF Selects, Params

LEMMA BindsAre ==
    ASSUME NEW params \in Seq(Params), NEW k \in 0 .. Len(params),
           \A i \in 1 .. k - 1 : params[i].type # "text"
    PROVE  LET all == FlattenSeq([i \in 1 .. k |-> Bind(i, params[i])])
           IN /\ all \in Seq(Frame)
              /\ Len(all) = IF k > 0 /\ params[k].type = "text" THEN 3 * k - 1 ELSE 3 * k
              /\ \A i \in 1 .. k :
                    /\ all[3 * i - 2] = TypedCmd("bind", params[i].type)
                    /\ all[3 * i - 1] = Number(i)
                    /\ params[i].type # "text" => all[3 * i] = params[i]
<1> DEFINE seqs == [i \in 1 .. k |-> Bind(i, params[i])]
<1>1. /\ \A i \in 1 .. k : params[i] \in Params /\ i \in Nat
      /\ k \in Nat
  OBVIOUS
<1>2. \A i \in 1 .. k : Bind(i, params[i]) \in Seq(Frame)
  BY <1>1, BindIs
<1>3. seqs \in Seq(Seq(Frame)) /\ Len(seqs) = k
  BY <1>1, <1>2
<1>4. \A i \in 1 .. k : seqs[i] = Bind(i, params[i])
  OBVIOUS
<1> HIDE DEF seqs
<1>5. PICK run \in [0 .. k -> Seq(Frame)] :
        /\ run[0] = << >>
        /\ \A i \in 1 .. k : run[i] = run[i - 1] \o seqs[i]
        /\ FlattenSeq(seqs) = run[k]
  <2>1. \E run \in [0 .. Len(seqs) -> Seq(Frame)] :
            /\ run[0] = << >>
            /\ \A i \in 1 .. Len(seqs) : run[i] = run[i - 1] \o seqs[i]
            /\ FlattenSeq(seqs) = run[Len(seqs)]
    BY <1>3, FlattenSteps
  <2> QED BY <1>3, <2>1
<1> DEFINE Length(j) == IF j > 0 /\ params[j].type = "text" THEN 3 * j - 1 ELSE 3 * j
           Holds(s, i) == /\ s[3 * i - 2] = TypedCmd("bind", params[i].type)
                          /\ s[3 * i - 1] = Number(i)
                          /\ params[i].type # "text" => s[3 * i] = params[i]
           T == {j \in 0 .. k : /\ Len(run[j]) = Length(j)
                                /\ \A i \in 1 .. j : Holds(run[j], i)}
<1>6. 0 \in T
  BY <1>1, <1>5
<1>7. ASSUME NEW j \in 1 .. k, j - 1 \in T PROVE j \in T
  <2> DEFINE s == run[j - 1]
             b == Bind(j, params[j])
  <2>1. s \in Seq(Frame) /\ b \in Seq(Frame)
    BY <1>1, <1>2
  <2>2. Len(s) = 3 * (j - 1) /\ \A i \in 1 .. j - 1 : Holds(s, i)
    <3>1. j - 1 > 0 => params[j - 1].type # "text"
      BY <1>1
    <3> QED BY <1>7, <3>1
  <2>3. /\ Len(b) = IF params[j].type = "text" THEN 2 ELSE 3
        /\ b[1] = TypedCmd("bind", params[j].type) /\ b[2] = Number(j)
        /\ params[j].type # "text" => b[3] = params[j]
    BY <1>1, BindIs
  <2>4. run[j] = s \o b
    BY <1>4, <1>5
  <2> HIDE DEF s, b
  <2>5. /\ Len(run[j]) = Len(s) + Len(b)
        /\ \A i \in 1 .. Len(s) : run[j][i] = s[i]
        /\ \A i \in 1 .. Len(b) : run[j][Len(s) + i] = b[i]
    BY <2>1, <2>4, ConcatIs
  <2>6. Len(run[j]) = Length(j)
    BY <2>2, <2>3, <2>5
  <2>7. Holds(run[j], j)
    <3>1. /\ run[j][Len(s) + 1] = b[1] /\ run[j][Len(s) + 2] = b[2]
          /\ params[j].type # "text" => run[j][Len(s) + 3] = b[3]
      <4>1. 1 \in 1 .. Len(b) /\ 2 \in 1 .. Len(b) /\ (params[j].type # "text" => 3 \in 1 .. Len(b))
        BY <2>3
      <4> QED BY <2>5, <4>1
    <3>2. Len(s) + 1 = 3 * j - 2 /\ Len(s) + 2 = 3 * j - 1 /\ Len(s) + 3 = 3 * j
      BY <2>2
    <3> QED BY <2>3, <3>1, <3>2
  <2>8. ASSUME NEW i \in 1 .. j - 1 PROVE Holds(run[j], i)
    <3>1. 3 * i - 2 \in 1 .. Len(s) /\ 3 * i - 1 \in 1 .. Len(s) /\ 3 * i \in 1 .. Len(s)
      <4>1. Len(s) = 3 * (j - 1) /\ j \in Nat /\ i \in Nat /\ 1 <= i /\ i <= j - 1
        BY <1>1, <2>2
      <4> QED BY <4>1
    <3>2. Holds(s, i)
      BY <2>2
    <3> QED BY <2>5, <3>1, <3>2
  <2> HIDE DEF Holds, Length
  <2> QED BY <2>6, <2>7, <2>8
<1>8. k \in T
  <2> HIDE DEF T
  <2>1. 0 .. k \subseteq T
    BY <1>1, <1>6, <1>7, RoundsInduction
  <2> QED BY <1>1, <2>1
<1>9. run[k] \in Seq(Frame) /\ FlattenSeq([i \in 1 .. k |-> Bind(i, params[i])]) = run[k]
  BY <1>1, <1>5 DEF seqs
<1> QED BY <1>8, <1>9

(* The frames of a select up to its first answer.                          *)
LEMMA OpeningIs ==
    ASSUME NEW select \in Selects
    PROVE  LET params == select.params
               k == Sendable(params)
               opening == Opening(select)
           IN /\ opening \in Seq(Frame)
              /\ opening[1] = Cmd("stmt") /\ opening[2] = Text(<<select.sql>>)
              /\ \A i \in 1 .. k :
                    /\ opening[3 * i] = TypedCmd("bind", params[i].type)
                    /\ opening[3 * i + 1] = Number(i)
                    /\ params[i].type # "text" => opening[3 * i + 2] = params[i]
              /\ ~ Raises(params) => /\ Len(opening) = 3 * k + 3
                                     /\ opening[3 * k + 3] = Cmd("step")
              /\ Raises(params) => Len(opening) = 3 * k + 1
<1> DEFINE params == select.params
           k == Sendable(params)
           all == FlattenSeq([i \in 1 .. k |-> Bind(i, params[i])])
           first == <<Cmd("stmt"), Text(<<select.sql>>)>>
           last == IF Raises(params) THEN << >> ELSE <<Cmd("step")>>
           opening == (first \o all) \o last
<1>1. params \in Seq(Params) /\ select.sql \in DOMAIN NumRows
  BY SelectIs
<1>2. /\ k \in 0 .. Len(params) /\ (Raises(params) => k > 0)
      /\ \A i \in 1 .. k : params[i].type = "text" <=> i = k /\ Raises(params)
  BY <1>1, SendableIs
<1>3. k \in Nat /\ \A i \in 1 .. k - 1 : params[i].type # "text"
  BY <1>1, <1>2
<1>4. /\ all \in Seq(Frame)
      /\ Len(all) = IF k > 0 /\ params[k].type = "text" THEN 3 * k - 1 ELSE 3 * k
      /\ \A i \in 1 .. k : /\ all[3 * i - 2] = TypedCmd("bind", params[i].type)
                           /\ all[3 * i - 1] = Number(i)
                           /\ params[i].type # "text" => all[3 * i] = params[i]
  <2> HIDE DEF params, k
  <2> QED BY <1>1, <1>2, <1>3, BindsAre
<1>5. Len(all) = IF Raises(params) THEN 3 * k - 1 ELSE 3 * k
  <2> HIDE DEF all, params, k
  <2> QED BY <1>2, <1>3, <1>4
<1>6. Cmd("stmt") \in Frame /\ Text(<<select.sql>>) \in Frame /\ Cmd("step") \in Frame
  BY <1>1, FrameOf
<1>7. Opening(select) = opening
  BY DEF Opening
<1>8. /\ first \in Seq(Frame) /\ Len(first) = 2
      /\ first[1] = Cmd("stmt") /\ first[2] = Text(<<select.sql>>)
  BY <1>6
<1>9. /\ last \in Seq(Frame) /\ Len(last) = IF Raises(params) THEN 0 ELSE 1
      /\ ~ Raises(params) => last[1] = Cmd("step")
  BY <1>6
<1> HIDE DEF all, first, last, params, k
<1> DEFINE n == Len(all)
<1>10. /\ opening \in Seq(Frame) /\ Len(opening) = 2 + n + Len(last)
       /\ opening[1] = first[1] /\ opening[2] = first[2]
       /\ \A i \in 1 .. n : opening[2 + i] = all[i]
       /\ \A i \in 1 .. Len(last) : opening[2 + n + i] = last[i]
  <2> DEFINE both == first \o all
  <2>1. /\ both \in Seq(Frame) /\ Len(both) = 2 + n /\ n \in Nat
        /\ \A i \in 1 .. 2 : both[i] = first[i]
        /\ \A i \in 1 .. n : both[2 + i] = all[i]
    <3>1. first \in Seq(Frame) /\ all \in Seq(Frame)
      BY <1>4, <1>8
    <3>2. /\ Len(all) \in Nat
          /\ both \in Seq(Frame) /\ Len(both) = Len(first) + Len(all)
          /\ \A i \in 1 .. Len(first) : both[i] = first[i]
          /\ \A i \in 1 .. Len(all) : both[Len(first) + i] = all[i]
      BY <3>1, ConcatIs
    <3> QED BY <3>2, <1>8
  <2> HIDE DEF both
  <2>2. /\ both \o last \in Seq(Frame) /\ Len(both \o last) = 2 + n + Len(last)
        /\ \A i \in 1 .. 2 + n : (both \o last)[i] = both[i]
        /\ \A i \in 1 .. Len(last) : (both \o last)[2 + n + i] = last[i]
    <3>1. both \in Seq(Frame) /\ last \in Seq(Frame)
      BY <1>9, <2>1
    <3>2. /\ both \o last \in Seq(Frame) /\ Len(both \o last) = Len(both) + Len(last)
          /\ \A i \in 1 .. Len(both) : (both \o last)[i] = both[i]
          /\ \A i \in 1 .. Len(last) : (both \o last)[Len(both) + i] = last[i]
      BY <3>1, ConcatIs
    <3> HIDE DEF n
    <3> QED BY <2>1, <3>2
  <2>3. 1 \in 1 .. 2 + n /\ 2 \in 1 .. 2 + n /\ \A i \in 1 .. n : 2 + i \in 1 .. 2 + n
    BY <2>1
  <2>4. (both \o last)[1] = first[1] /\ (both \o last)[2] = first[2]
    BY <2>1, <2>2, <2>3
  <2>5. \A i \in 1 .. n : (both \o last)[2 + i] = all[i]
    BY <2>1, <2>2, <2>3
  <2> HIDE DEF n
  <2> QED BY <2>2, <2>4, <2>5 DEF both
<1> HIDE DEF opening, n
<1>11. ASSUME NEW i \in 1 .. k
       PROVE  /\ opening[3 * i] = TypedCmd("bind", params[i].type)
              /\ opening[3 * i + 1] = Number(i)
              /\ params[i].type # "text" => opening[3 * i + 2] = params[i]
  <2>1. /\ 3 * i - 2 \in 1 .. n /\ 2 + (3 * i - 2) = 3 * i
        /\ 3 * i - 1 \in 1 .. n /\ 2 + (3 * i - 1) = 3 * i + 1
        /\ params[i].type # "text" => 3 * i \in 1 .. n
        /\ 2 + 3 * i = 3 * i + 2
    <3>1. n = IF Raises(params) THEN 3 * k - 1 ELSE 3 * k
      BY <1>5 DEF n
    <3>2. params[i].type # "text" => i < k \/ ~ Raises(params)
      BY <1>2, <1>3
    <3>3. i \in Nat /\ 1 <= i /\ i <= k /\ k \in Nat
      BY <1>3
    <3>4. 3 * i - 2 \in 1 .. n /\ 3 * i - 1 \in 1 .. n
      BY <3>1, <3>3
    <3>5. params[i].type # "text" => 3 * i \in 1 .. n
      BY <3>1, <3>2, <3>3
    <3>6. 2 + (3 * i - 2) = 3 * i /\ 2 + (3 * i - 1) = 3 * i + 1 /\ 2 + 3 * i = 3 * i + 2
      BY <3>3
    <3> QED BY <3>4, <3>5, <3>6
  <2>2. \A l \in 1 .. n : opening[2 + l] = all[l]
    BY <1>10
  <2>3. opening[3 * i] = all[3 * i - 2]
    BY ONLY <2>1, <2>2
  <2>4. opening[3 * i + 1] = all[3 * i - 1]
    BY ONLY <2>1, <2>2
  <2>5. params[i].type # "text" => opening[3 * i + 2] = all[3 * i]
    BY ONLY <2>1, <2>2
  <2>6. /\ all[3 * i - 2] = TypedCmd("bind", params[i].type)
        /\ all[3 * i - 1] = Number(i)
        /\ params[i].type # "text" => all[3 * i] = params[i]
    BY <1>4
  <2> QED BY ONLY <2>3, <2>4, <2>5, <2>6
<1>12. ~ Raises(params) => Len(opening) = 3 * k + 3 /\ opening[3 * k + 3] = Cmd("step")
  <2> SUFFICES ASSUME ~ Raises(params) PROVE Len(opening) = 3 * k + 3 /\ opening[3 * k + 3] = Cmd("step")
    OBVIOUS
  <2>1. n = 3 * k /\ Len(last) = 1 /\ last[1] = Cmd("step")
    BY <1>5, <1>9 DEF n
  <2>2. opening[2 + n + 1] = last[1] /\ 2 + n + 1 = 3 * k + 3
    BY <1>3, <1>10, <2>1
  <2> QED BY <1>10, <2>1, <2>2
<1>13. Raises(params) => Len(opening) = 3 * k + 1
  BY <1>3, <1>5, <1>9, <1>10 DEF n
<1> QED BY <1>7, <1>8, <1>10, <1>11, <1>12, <1>13 DEF params, k

LEMMA OpeningFramed ==
    ASSUME NEW select \in Selects
    PROVE  Framed(Opening(select), Len(Opening(select)))
<1> DEFINE params == select.params
           k == Sendable(params)
           p == Opening(select)
           n == Len(p)
           B == {0, n} \cup {b \in 0 .. n : \E i \in 0 .. k : b = 3 * i + 2}
<1>1. /\ p \in Seq(Frame)
      /\ p[1] = Cmd("stmt") /\ p[2] = Text(<<select.sql>>)
      /\ \A i \in 1 .. k : /\ p[3 * i] = TypedCmd("bind", params[i].type)
                           /\ p[3 * i + 1] = Number(i)
                           /\ params[i].type # "text" => p[3 * i + 2] = params[i]
      /\ ~ Raises(params) => n = 3 * k + 3 /\ p[3 * k + 3] = Cmd("step")
      /\ Raises(params) => n = 3 * k + 1
  BY OpeningIs
<1>2. /\ k \in Nat /\ (Raises(params) => k > 0)
      /\ \A i \in 1 .. k : params[i].type = "text" <=> i = k /\ Raises(params)
  BY SelectIs, SendableIs
<1>3. n \in Nat /\ n >= 2
  <2> HIDE DEF p, k, params
  <2> QED BY <1>1, <1>2
<1> HIDE DEF n, p, k, params
<1>4. B \in SUBSET (0 .. n) /\ 0 \in B
  BY <1>3
<1>5. CallAfter(0, p, n, B)
  <2>1. p[0 + 1].type = "text" /\ p[0 + 1].val = <<"stmt">>
    BY <1>1 DEF Cmd, Text
  <2>2. /\ NumArguments(p[0 + 1].val) = 1 /\ Arguments(p[0 + 1].val) = <<"text">>
    BY <2>1, ArgumentsOf
  <2>3. p[0 + 1 + 1].type = "text"
    BY <1>1 DEF Text
  <2>4. 2 \in B
    BY <1>2, <1>3
  <2> HIDE DEF B
  <2> QED BY <2>1, <2>2, <2>3, <2>4 DEF CallAfter
<1>6. ASSUME NEW i \in 0 .. k, 3 * i + 2 < n PROVE CallAfter(3 * i + 2, p, n, B)
  <2>1. CASE i < k
    <3> DEFINE j == i + 1
    <3>1. j \in 1 .. k /\ 3 * i + 2 + 1 = 3 * j
      BY <1>2, <2>1
    <3> HIDE DEF j
    <3>2. /\ p[3 * j].type = "text" /\ p[3 * j].val = <<"bind", params[j].type>>
          /\ p[3 * j + 1].type = "int"
      <4>1. p[3 * j] = TypedCmd("bind", params[j].type) /\ p[3 * j + 1] = Number(j)
        BY <1>1, <3>1
      <4> QED BY <4>1 DEF TypedCmd, Text, Number
    <3>3. /\ NumArguments(p[3 * j].val) = 2
          /\ Arguments(p[3 * j].val) = <<"int", params[j].type>>
      BY <3>2, ArgumentsOf
    <3>4. 3 * j + 2 <= n => p[3 * j + 2].type = params[j].type
      <4> SUFFICES ASSUME 3 * j + 2 <= n PROVE p[3 * j + 2].type = params[j].type
        OBVIOUS
      <4>1. params[j].type # "text"
        BY <1>1, <1>2, <3>1
      <4> QED BY <1>1, <3>1, <4>1
    <3>5. 3 * j + 2 <= n => 3 * j + 2 \in B
      BY <1>2, <1>3, <3>1
    <3> HIDE DEF B
    <3>6. \A a \in 1 .. 2 : 3 * j + a <= n => p[3 * j + a].type = <<"int", params[j].type>>[a]
      BY <3>2, <3>4
    <3> QED BY <3>1, <3>2, <3>3, <3>5, <3>6 DEF CallAfter
  <2>2. CASE i = k
    <3>1. ~ Raises(params) /\ n = 3 * i + 2 + 1
      BY <1>1, <1>2, <1>6, <2>2
    <3>2. p[n].type = "text" /\ p[n].val = <<"step">>
      BY <1>1, <1>2, <2>2, <3>1 DEF Cmd, Text
    <3>3. NumArguments(p[n].val) = 0
      BY <3>2, ArgumentsOf
    <3> QED BY <1>3, <3>1, <3>2, <3>3 DEF CallAfter
  <2> QED BY <1>2, <2>1, <2>2
<1>7. ASSUME NEW b \in B, b < n PROVE CallAfter(b, p, n, B)
  <2>1. b = 0 \/ \E i \in 0 .. k : b = 3 * i + 2
    BY <1>3, <1>7
  <2> HIDE DEF B
  <2> QED BY <1>5, <1>6, <1>7, <2>1
<1> HIDE DEF B
<1>8. Framed(p, n)
  BY <1>4, <1>7 DEF Framed
<1> QED BY <1>8 DEF p, n

(***************************************************************************)
(* The invariant                                                           *)
(***************************************************************************)
Pending == (call \o to_server) \o todo

StreamsOK ==
    /\ call \in Seq(Frame) /\ to_server \in Seq(Frame) /\ todo \in Seq(Frame)
    /\ call # << >> => Len(call) <= NumArguments(call[1].val)

Values(params) == [k \in DOMAIN params |-> params[k].val]
ResultCell(s, r, c) == [sql |-> s.sql, bound |-> Values(s.params), row |-> r, col |-> c - 1]
Cells(s, r, n) == [c \in 1 .. n |-> ResultCell(s, r, c)]
Line(s, r) == Cells(s, r, Len(s.cols))
Lines(s, n) == [r \in 1 .. n |-> Line(s, r)]

(* The statement with its first j parameters, and on its n-th row.         *)
StmtWith(s, j) ==
    [sql |-> s.sql, bound |-> [i \in 1 .. j |-> s.params[i].val], row |-> 0]
StmtOn(s, n) == [sql |-> s.sql, bound |-> Values(s.params), row |-> n]

(* n rows are read, and an answer to step is awaited.                      *)
Opens(s, n) ==
    /\ n = 0 /\ to_client = << >>
    /\ Pending = Opening(s) \/ Pending = <<Cmd("finalize")>> \o Opening(s)
Binds(s, n) ==
    /\ n = 0 /\ to_client = << >>
    /\ \E j \in 0 .. Len(s.params) :
          /\ stmt = StmtWith(s, j)
          /\ Len(Pending) = 3 * (Len(s.params) - j) + 1
          /\ \A i \in 1 .. Len(Pending) : Pending[i] = Opening(s)[3 * j + 2 + i]
Steps(s, n) == Pending = <<Cmd("step")>> /\ to_client = << >> /\ stmt = StmtOn(s, n)
GotRow(s, n) ==
    Pending = << >> /\ to_client = <<Number(1)>> /\ n < NumRows[s.sql] /\ stmt = StmtOn(s, n + 1)
Complete(s, n) == n = NumRows[s.sql] \/ current \in errors
GotEnd(s, n) == Pending = << >> /\ to_client = <<Number(0)>> /\ Complete(s, n)
AwaitsStatus(s, n) == Opens(s, n) \/ Binds(s, n) \/ Steps(s, n) \/ GotRow(s, n) \/ GotEnd(s, n)

(* A cell of the next row is awaited.                                      *)
AwaitsColumn(s, n) ==
    /\ n < NumRows[s.sql] /\ stmt = StmtOn(s, n + 1)
    /\ \E c \in 1 .. Len(s.cols) :
          /\ row = Cells(s, n + 1, c - 1)
          /\ \/ /\ Pending = <<TypedCmd("column", s.cols[c]), Number(c - 1)>>
                /\ to_client = << >>
             \/ /\ Pending = << >>
                /\ to_client = <<[type |-> s.cols[c], val |-> ResultCell(s, n + 1, c)]>>

HasAll(s, n) ==
    /\ Complete(s, n) /\ to_client = << >>
    /\ Pending = << >> \/ Pending = <<Cmd("finalize")>>

Served(s, n) ==
    /\ results = Lines(s, n)
    /\ client = "status" => AwaitsStatus(s, n)
    /\ client = "column" => AwaitsColumn(s, n)
    /\ client \in {"status", "column"} => ~ Raises(s.params)
    /\ client = "return" => HasAll(s, n)

Serving == {"status", "column", "return"}
AllResults == {Lines(s, n) : s \in Selects, n \in Nat}
ReturnedOK ==
    /\ returned \in Seq(AllResults) /\ Len(returned) <= Len(script)
    /\ \A i \in 1 .. Len(returned) : \E n \in 0 .. NumRows[script[i].sql] :
          returned[i] = Lines(script[i], n) /\ (n = NumRows[script[i].sql] \/ i \in errors)

IInv ==
    /\ script \in Scripts /\ current \in 1 .. Len(script)
    /\ StreamsOK
    /\ Framed(Pending, Len(Pending))
    /\ client \in Serving =>
          Len(returned) = current - 1 /\ \E n \in 0 .. NumRows[Select.sql] : Served(Select, n)
    /\ ReturnedOK

(***************************************************************************)
(* Steps that leave the stream or end it                                   *)
(***************************************************************************)
LEMMA ThreeParts ==
    ASSUME NEW S, NEW a \in Seq(S), NEW b \in Seq(S), NEW c \in Seq(S)
    PROVE  /\ (a \o b) \o c \in Seq(S)
           /\ Len((a \o b) \o c) = Len(a) + Len(b) + Len(c)
           /\ \A i \in 1 .. Len(a) : ((a \o b) \o c)[i] = a[i]
           /\ \A i \in 1 .. Len(b) : ((a \o b) \o c)[Len(a) + i] = b[i]
           /\ \A i \in 1 .. Len(c) : ((a \o b) \o c)[Len(a) + Len(b) + i] = c[i]
<1> DEFINE ab == a \o b
<1>1. /\ ab \in Seq(S) /\ Len(ab) = Len(a) + Len(b) /\ Len(a) \in Nat /\ Len(b) \in Nat
      /\ \A i \in 1 .. Len(a) : ab[i] = a[i]
      /\ \A i \in 1 .. Len(b) : ab[Len(a) + i] = b[i]
  BY ConcatIs
<1> HIDE DEF ab
<1>2. /\ ab \o c \in Seq(S) /\ Len(ab \o c) = Len(ab) + Len(c)
      /\ \A i \in 1 .. Len(ab) : (ab \o c)[i] = ab[i]
      /\ \A i \in 1 .. Len(c) : (ab \o c)[Len(ab) + i] = c[i]
  <2>1. ab \in Seq(S) /\ c \in Seq(S)
    BY <1>1
  <2> QED BY <2>1, ConcatIs
<1>3. /\ \A i \in 1 .. Len(a) : i \in 1 .. Len(ab)
      /\ \A i \in 1 .. Len(b) : Len(a) + i \in 1 .. Len(ab)
  BY <1>1
<1>4. \A i \in 1 .. Len(a) : (ab \o c)[i] = a[i]
  BY <1>1, <1>2, <1>3
<1>5. \A i \in 1 .. Len(b) : (ab \o c)[Len(a) + i] = b[i]
  BY <1>1, <1>2, <1>3
<1>6. /\ Len(ab \o c) = Len(a) + Len(b) + Len(c)
      /\ \A i \in 1 .. Len(c) : (ab \o c)[Len(a) + Len(b) + i] = c[i]
  BY <1>1, <1>2
<1> QED BY <1>2, <1>4, <1>5, <1>6 DEF ab

LEMMA PendingIs ==
    ASSUME StreamsOK
    PROVE  /\ Len(call) \in Nat /\ Len(to_server) \in Nat /\ Len(todo) \in Nat
           /\ Pending \in Seq(Frame)
           /\ Len(Pending) = Len(call) + Len(to_server) + Len(todo)
           /\ \A i \in 1 .. Len(call) : Pending[i] = call[i]
           /\ \A i \in 1 .. Len(to_server) : Pending[Len(call) + i] = to_server[i]
           /\ \A i \in 1 .. Len(todo) : Pending[Len(call) + Len(to_server) + i] = todo[i]
<1>1. call \in Seq(Frame) /\ to_server \in Seq(Frame) /\ todo \in Seq(Frame)
  BY DEF StreamsOK
<1>2. Len(call) \in Nat /\ Len(to_server) \in Nat /\ Len(todo) \in Nat
  BY <1>1
<1>3. /\ Pending \in Seq(Frame)
      /\ Len(Pending) = Len(call) + Len(to_server) + Len(todo)
      /\ \A i \in 1 .. Len(call) : Pending[i] = call[i]
      /\ \A i \in 1 .. Len(to_server) : Pending[Len(call) + i] = to_server[i]
      /\ \A i \in 1 .. Len(todo) : Pending[Len(call) + Len(to_server) + i] = todo[i]
  BY <1>1, ThreeParts DEF Pending
<1> QED BY <1>2, <1>3

LEMMA EmptyFramed == \A p : Framed(p, 0)
<1>1. {0} \in SUBSET (0 .. 0) /\ \A b \in {0} : ~ (b < 0)
  OBVIOUS
<1> QED BY <1>1 DEF Framed

LEMMA ReturnedKept ==
    ASSUME ReturnedOK, UNCHANGED <<script, returned>>, errors \subseteq errors'
    PROVE  ReturnedOK'
<1> QED BY DEF ReturnedOK

LEMMA SamePending ==
    ASSUME IInv, StreamsOK', Pending' = Pending,
           UNCHANGED <<script, client, current, results, row, returned, to_client, stmt, errors>>
    PROVE  IInv'
<1>1. ReturnedOK'
  BY ReturnedKept DEF IInv
<1>2. Select' = Select
  BY DEF Select
<1>3. \A s, n : /\ AwaitsStatus(s, n)' <=> AwaitsStatus(s, n)
                /\ AwaitsColumn(s, n)' <=> AwaitsColumn(s, n)
                /\ HasAll(s, n)' <=> HasAll(s, n)
  BY DEF AwaitsStatus, Opens, Binds, Steps, GotRow, GotEnd, AwaitsColumn, HasAll, Complete
<1>4. \A s, n : Served(s, n)' <=> Served(s, n)
  BY <1>3 DEF Served
<1> QED BY <1>1, <1>2, <1>4 DEF IInv

(* A script that serves no select any more.                                *)
LEMMA Leaves ==
    ASSUME IInv, StreamsOK', Framed(Pending, Len(Pending))', client' \notin Serving,
           UNCHANGED <<script, current>>, ReturnedOK'
    PROVE  IInv'
<1> QED BY DEF IInv

LEMMA LinesStart == \A s : Lines(s, 0) = << >>
<1> QED BY DEF Lines

LEMMA SelectsAre ==
    ASSUME IInv PROVE Select \in Selects /\ NumRows[Select.sql] \in Nat
<1>1. script \in Seq(Selects) /\ current \in 1 .. Len(script)
  BY VisAdapterAssumption DEF IInv
<1>2. script[current] \in Selects
  BY <1>1
<1> QED BY <1>2, SelectIs, VisAdapterAssumption DEF Select

(* What a script sends next, after what is left of the last select.        *)
LEMMA NextFramed ==
    ASSUME NEW o \in Seq(Frame), Framed(o, Len(o)), NEW p,
           p = o \/ p = <<Cmd("finalize")>> \o o
    PROVE  Framed(p, Len(p))
<1>1. CASE p = <<Cmd("finalize")>> \o o
  <2> DEFINE f == <<Cmd("finalize")>>
  <2>1. f \in Seq(Frame) /\ Len(f) = 1 /\ f[1] = Cmd("finalize")
    BY FrameOf
  <2> HIDE DEF f
  <2>2. /\ Len(o) \in Nat /\ Len(f \o o) = Len(f) + Len(o)
        /\ \A i \in 1 .. Len(f) : (f \o o)[i] = f[i]
        /\ \A i \in 1 .. Len(o) : (f \o o)[Len(f) + i] = o[i]
    <3>1. f \in Seq(Frame) /\ o \in Seq(Frame)
      BY <2>1
    <3> QED BY <3>1, ConcatIs
  <2>3. /\ Len(f \o o) = Len(o) + 1 /\ (f \o o)[1] = Cmd("finalize")
        /\ \A i \in 1 .. Len(o) : (f \o o)[i + 1] = o[i]
    <3>1. \A i \in 1 .. Len(o) : Len(f) + i = i + 1
      BY <2>1, <2>2
    <3> QED BY <2>1, <2>2, <3>1
  <2>4. Framed(f \o o, Len(o) + 1)
    BY <2>2, <2>3, PrefixedFramed
  <2> QED BY <1>1, <2>3, <2>4 DEF f
<1> QED BY <1>1

LEMMA OpeningsFramed ==
    ASSUME NEW s \in Selects, NEW p,
           p = Opening(s) \/ p = <<Cmd("finalize")>> \o Opening(s)
    PROVE  Framed(p, Len(p))
<1>1. Opening(s) \in Seq(Frame) /\ Framed(Opening(s), Len(Opening(s)))
  BY OpeningIs, OpeningFramed
<1> QED BY <1>1, NextFramed

LEMMA InitInv == Init => IInv
<1> SUFFICES ASSUME Init PROVE IInv
  OBVIOUS
<1>1. /\ script \in Seq(Selects) /\ Len(script) \in Nat \ {0}
      /\ current = 1 /\ Select \in Selects
  <2>1. script \in Seq(Selects) /\ script # << >> /\ current = 1
    BY VisAdapterAssumption DEF Init
  <2> QED BY <2>1, EmptySeq DEF Select
<1>2. Opening(Select) \in Seq(Frame)
  BY <1>1, OpeningIs
<1>3. /\ to_server = << >> /\ to_client = << >> /\ call = << >> /\ results = << >>
      /\ returned = << >> /\ script \in Scripts
  BY DEF Init
<1>4. StreamsOK
  <2>1. todo = Opening(Select) \/ todo = << >>
    BY <1>1 DEF Init, Select
  <2>2. << >> \in Seq(Frame)
    BY EmptySeq
  <2>3. todo \in Seq(Frame)
    BY <1>2, <2>1, <2>2
  <2> QED BY <1>3, <2>2, <2>3 DEF StreamsOK
<1>5. Pending = todo
  BY <1>3, <1>4, ConcatEmptySeq DEF Pending, StreamsOK
<1>6. ReturnedOK
  BY <1>1, <1>3 DEF ReturnedOK
<1>7. CASE todo = Opening(Select) /\ client = AfterOpening(Select)
  <2>1. Opens(Select, 0)
    BY <1>3, <1>5, <1>7 DEF Opens
  <2>2. Framed(Pending, Len(Pending))
    BY <1>1, <2>1, OpeningsFramed DEF Opens
  <2>3. Served(Select, 0)
    BY <1>3, <1>7, <2>1, LinesStart DEF Served, AfterOpening, AwaitsStatus
  <2>4. 0 \in 0 .. NumRows[Select.sql]
    BY <1>1, SelectIs, VisAdapterAssumption
  <2>5. Len(returned) = current - 1
    BY <1>1, <1>3
  <2> QED BY <1>1, <1>3, <1>4, <1>6, <2>2, <2>3, <2>4, <2>5 DEF IInv
<1>8. CASE todo = << >> /\ client = "dead"
  <2>1. Pending = << >> /\ Framed(Pending, Len(Pending))
    BY <1>5, <1>8, EmptyFramed
  <2> QED BY <1>1, <1>3, <1>4, <1>6, <1>8, <2>1 DEF IInv, Serving
<1> QED BY <1>1, <1>7, <1>8 DEF Init, Select

(* Concatenation, as an operator that is cited by its laws only.           *)
Cat(s, t) == s \o t

LEMMA CatAssociative ==
    \A S : \A s, t, u \in Seq(S) : Cat(Cat(s, t), u) = Cat(s, Cat(t, u))
<1> SUFFICES ASSUME NEW S, NEW s \in Seq(S), NEW t \in Seq(S), NEW u \in Seq(S)
             PROVE  (s \o t) \o u = s \o (t \o u)
  BY Zenon DEF Cat
<1> QED BY ConcatAssociative

LEMMA PassOn ==
    \A S : \A a, b, h, t \in Seq(S) : Cat(Cat(a, Cat(b, h)), t) = Cat(Cat(a, b), Cat(h, t))
<1> SUFFICES ASSUME NEW S, NEW a \in Seq(S), NEW b \in Seq(S), NEW h \in Seq(S), NEW t \in Seq(S)
             PROVE  Cat(Cat(a, Cat(b, h)), t) = Cat(Cat(a, b), Cat(h, t))
  OBVIOUS
<1>1. Cat(a, b) \in Seq(S)
  BY DEF Cat
<1>2. Cat(Cat(a, b), h) = Cat(a, Cat(b, h))
  BY CatAssociative
<1> QED BY <1>1, <1>2, CatAssociative

(* A frame is passed on: the stream stays as it is.                        *)
LEMMA SendInv == IInv /\ Send => IInv'
<1> SUFFICES ASSUME IInv, Send PROVE IInv'
  OBVIOUS
<1>1. /\ call \in Seq(Frame) /\ to_server \in Seq(Frame) /\ todo \in Seq(Frame)
      /\ todo # << >> /\ StreamsOK
  BY DEF IInv, StreamsOK, Send
<1>2. to_server' = Append(to_server, Head(todo)) /\ todo' = Tail(todo) /\ call' = call
  BY DEF Send, server_vars
<1>3. Head(todo) \in Frame /\ Tail(todo) \in Seq(Frame) /\ todo = <<Head(todo)>> \o Tail(todo)
  BY <1>1
<1>4. /\ to_server' \in Seq(Frame) /\ todo' \in Seq(Frame)
      /\ to_server' = to_server \o <<Head(todo)>>
  BY <1>1, <1>2, <1>3, AppendProperties, AppendIsConcat
<1>5. Pending' = Pending
  <2> DEFINE h == <<Head(todo)>>
             t == Tail(todo)
  <2>1. h \in Seq(Frame) /\ t \in Seq(Frame)
    BY <1>1, <1>3
  <2>2. Pending' = Cat(Cat(call, Cat(to_server, h)), t)
    BY <1>2, <1>4 DEF Pending, Cat
  <2>3. Pending = Cat(Cat(call, to_server), Cat(h, t))
    BY <1>3 DEF Pending, Cat
  <2> HIDE DEF h, t
  <2> QED BY <1>1, <2>1, <2>2, <2>3, PassOn
<1>6. StreamsOK'
  BY <1>1, <1>2, <1>4 DEF StreamsOK
<1> QED BY <1>5, <1>6, SamePending DEF Send, server_vars

(* The script ends while it has nothing left to send.                      *)
LEMMA LeaveInv == IInv /\ (Raise \/ End) => IInv'
<1> SUFFICES ASSUME IInv, Raise \/ End PROVE IInv'
  OBVIOUS
<1>1. /\ todo = << >> /\ todo' = todo /\ client' \notin Serving
      /\ UNCHANGED <<script, current, returned, call, to_server, errors>>
  BY DEF Raise, End, Leave, server_vars, Serving
<1>2. StreamsOK' /\ Pending' = Pending
  BY <1>1 DEF IInv, StreamsOK, Pending
<1>3. ReturnedOK'
  BY <1>1, ReturnedKept DEF IInv
<1> QED BY <1>1, <1>2, <1>3, Leaves DEF IInv

(* The script is killed: what is left is cut off where it was.             *)
LEMMA DieInv == IInv /\ Die => IInv'
<1> SUFFICES ASSUME IInv, Die PROVE IInv'
  OBVIOUS
<1>1. /\ todo' = << >> /\ client' = "dead"
      /\ UNCHANGED <<script, current, returned, call, errors>>
  BY DEF Die, Leave, server_vars
<1>2. PICK n \in 0 .. Len(to_server) : to_server' = SubSeq(to_server, 1, n)
  BY DEF Die
<1>3. /\ call \in Seq(Frame) /\ to_server \in Seq(Frame) /\ Len(to_server) \in Nat
      /\ Len(call) \in Nat /\ Len(todo) \in Nat /\ Len(Pending) \in Nat
      /\ Len(Pending) = Len(call) + Len(to_server) + Len(todo)
      /\ \A i \in 1 .. Len(call) : Pending[i] = call[i]
      /\ \A i \in 1 .. Len(to_server) : Pending[Len(call) + i] = to_server[i]
  <2>1. StreamsOK
    BY DEF IInv
  <2> QED BY <2>1, PendingIs DEF StreamsOK
<1>4. /\ to_server' \in Seq(Frame) /\ Len(to_server') = n
      /\ \A i \in 1 .. n : to_server'[i] = to_server[i]
  <2>1. \A i \in 1 .. n : to_server[i] \in Frame
    BY <1>3
  <2> QED BY <1>2, <1>3, <2>1, SubSeqProperties
<1>5. StreamsOK'
  BY <1>1, <1>3, <1>4 DEF IInv, StreamsOK
<1>6. /\ Len(Pending') = Len(call) + n
      /\ \A i \in 1 .. Len(call) : Pending'[i] = call[i]
      /\ \A i \in 1 .. n : Pending'[Len(call) + i] = to_server[i]
  <2>1. /\ call' \in Seq(Frame) /\ to_server' \in Seq(Frame) /\ todo' \in Seq(Frame)
        /\ Len(todo') = 0
    BY <1>1, <1>5 DEF StreamsOK
  <2>2. /\ Len(Pending') = Len(call') + Len(to_server') + Len(todo')
        /\ \A i \in 1 .. Len(call') : Pending'[i] = call'[i]
        /\ \A i \in 1 .. Len(to_server') : Pending'[Len(call') + i] = to_server'[i]
    <3>1. Pending' = (call' \o to_server') \o todo'
      BY DEF Pending
    <3> QED BY <2>1, <3>1, ThreeParts
  <2> QED BY <1>1, <1>3, <1>4, <2>1, <2>2
<1>7. ASSUME NEW k \in 1 .. Len(Pending') PROVE Pending'[k] = Pending[k]
  <2>1. CASE k <= Len(call)
    BY <1>3, <1>6, <2>1
  <2>2. CASE k > Len(call)
    <3>1. k - Len(call) \in 1 .. n /\ Len(call) + (k - Len(call)) = k
      BY <1>3, <1>6, <2>2
    <3>2. k - Len(call) \in 1 .. Len(to_server)
      BY <1>3, <3>1
    <3> QED BY <1>3, <1>6, <3>1, <3>2
  <2> QED BY <1>3, <2>1, <2>2
<1>8. Framed(Pending, Len(Pending))'
  <2>1. Len(Pending') \in 0 .. Len(Pending)
    BY <1>3, <1>6
  <2>2. Framed(Pending, Len(Pending))
    BY DEF IInv
  <2> QED BY <1>3, <1>7, <2>1, <2>2, PrefixFramed
<1>9. ReturnedOK'
  BY <1>1, ReturnedKept DEF IInv
<1> QED BY <1>1, <1>5, <1>8, <1>9, Leaves DEF Serving

(***************************************************************************)
(* Answers that the script takes                                           *)
(***************************************************************************)
LEMMA NothingPending ==
    ASSUME StreamsOK, Pending = << >>
    PROVE  call = << >> /\ to_server = << >> /\ todo = << >>
<1>1. call \in Seq(Frame) /\ to_server \in Seq(Frame) /\ todo \in Seq(Frame)
  BY DEF StreamsOK
<1>2. Len(call) + Len(to_server) + Len(todo) = 0
  BY PendingIs
<1>3. Len(call) = 0 /\ Len(to_server) = 0 /\ Len(todo) = 0
  BY <1>2, PendingIs
<1> QED BY <1>1, <1>3, EmptySeq

LEMMA AllSent ==
    ASSUME call' = << >>, to_server' = << >>, todo' \in Seq(Frame)
    PROVE  StreamsOK' /\ Pending' = todo'
<1>1. << >> \in Seq(Frame) /\ << >> \o << >> = << >>
  BY EmptySeq
<1> QED BY <1>1, ConcatEmptySeq DEF StreamsOK, Pending

LEMMA SmallCalls ==
    /\ \A type \in Types, n \in Nat :
          LET p == <<TypedCmd("column", type), Number(n)>>
          IN p \in Seq(Frame) /\ Framed(p, Len(p))
    /\ \A verb \in {"step", "finalize", "exit"} :
          LET p == <<Cmd(verb)>>
          IN p \in Seq(Frame) /\ Framed(p, Len(p))
<1>1. ASSUME NEW type \in Types, NEW n \in Nat
      PROVE  LET p == <<TypedCmd("column", type), Number(n)>>
             IN p \in Seq(Frame) /\ Framed(p, Len(p))
  <2> DEFINE p == <<TypedCmd("column", type), Number(n)>>
  <2>1. TypedCmd("column", type) \in Frame /\ Number(n) \in Frame
    BY FrameOf
  <2>2. p \in Seq(Frame) /\ Len(p) = 2 /\ p[1] = TypedCmd("column", type) /\ p[2] = Number(n)
    BY <2>1
  <2> HIDE DEF p
  <2>3. /\ p[1].type = "text" /\ p[1].val = <<"column", type>> /\ p[2].type = "int"
    BY <2>2 DEF TypedCmd, Text, Number
  <2>4. NumArguments(p[1].val) = 1 /\ Arguments(p[1].val) = <<"int">>
    BY <2>3, ArgumentsOf
  <2>5. \A i \in 1 .. 2 - 1 : p[1 + i].type = Arguments(p[1].val)[i]
    BY <2>3, <2>4
  <2>6. Framed(p, 2)
    BY <2>3, <2>4, <2>5, CallFramed
  <2> QED BY <2>2, <2>6 DEF p
<1>2. ASSUME NEW verb \in {"step", "finalize", "exit"}
      PROVE  LET p == <<Cmd(verb)>>
             IN p \in Seq(Frame) /\ Framed(p, Len(p))
  <2> DEFINE p == <<Cmd(verb)>>
  <2>1. p \in Seq(Frame) /\ Len(p) = 1 /\ p[1] = Cmd(verb)
    BY FrameOf
  <2> HIDE DEF p
  <2>2. p[1].type = "text" /\ p[1].val = <<verb>>
    BY <2>1 DEF Cmd, Text
  <2>3. NumArguments(p[1].val) = 0
    BY <2>2, ArgumentsOf
  <2>4. Framed(p, 1)
    BY <2>2, <2>3, CallFramed
  <2> QED BY <2>1, <2>4 DEF p
<1> QED BY <1>1, <1>2

LEMMA RecvStatusInv == IInv /\ RecvStatus => IInv'
<1> SUFFICES ASSUME IInv, RecvStatus PROVE IInv'
  OBVIOUS
<1> DEFINE s == Select
<1>1. /\ client = "status" /\ to_client # << >> /\ to_client' = Tail(to_client)
      /\ UNCHANGED <<script, current, returned, to_server, call, stmt, errors>>
      /\ results' = results /\ row' = << >>
  BY DEF RecvStatus, Receive, server_vars
<1>2. s \in Selects /\ NumRows[s.sql] \in Nat /\ s' = s
  BY <1>1, SelectsAre DEF Select
<1>3. Len(returned) = current - 1 /\ StreamsOK
  BY <1>1 DEF IInv, Serving
<1>4. PICK n \in 0 .. NumRows[s.sql] : Served(s, n)
  BY <1>1 DEF IInv, Serving
<1>5. GotRow(s, n) \/ GotEnd(s, n)
  BY <1>1, <1>4 DEF Served, AwaitsStatus, Opens, Binds, Steps
<1>6. Pending = << >> /\ call = << >> /\ to_server = << >>
  BY <1>3, <1>5, NothingPending DEF GotRow, GotEnd
<1>7. ReturnedOK'
  BY <1>1, ReturnedKept DEF IInv
<1>8. to_client' = << >>
  BY <1>1, <1>5 DEF GotRow, GotEnd
<1>9. CASE GotRow(s, n)
  <2>1. s.cols \in Seq(Types) /\ Len(s.cols) \in Nat \ {0} /\ s.cols[1] \in Types
    BY <1>2, SelectIs
  <2>2. Head(to_client).val = 1
    BY <1>9 DEF GotRow, Number
  <2>3. todo' = <<TypedCmd("column", s.cols[1]), Number(1 - 1)>> /\ client' = "column"
    BY <2>2 DEF RecvStatus, GetColumn, ColumnIndex
  <2>4. todo' \in Seq(Frame) /\ Framed(todo', Len(todo'))
    BY <2>1, <2>3, SmallCalls
  <2>5. StreamsOK' /\ Pending' = todo'
    BY <1>1, <1>6, <2>4, AllSent
  <2>6. Cells(s, n + 1, 1 - 1) = << >>
    BY DEF Cells
  <2>7. AwaitsColumn(s, n)'
    <3> HIDE DEF s
    <3> QED BY <1>1, <1>2, <1>8, <1>9, <2>1, <2>3, <2>5, <2>6 DEF AwaitsColumn, GotRow
  <2>8. Served(s, n)'
    BY <1>1, <1>2, <1>4, <2>3, <2>7 DEF Served
  <2> QED BY <1>1, <1>2, <1>3, <1>7, <2>4, <2>5, <2>8 DEF IInv
<1>10. CASE GotEnd(s, n)
  <2>1. Head(to_client).val = 0
    BY <1>10 DEF GotEnd, Number
  <2>2. todo' = <<Cmd("finalize")>> /\ client' = "return"
    BY <2>1 DEF RecvStatus
  <2>3. todo' \in Seq(Frame) /\ Framed(todo', Len(todo'))
    BY <2>2, SmallCalls
  <2>4. StreamsOK' /\ Pending' = todo'
    BY <1>1, <1>6, <2>3, AllSent
  <2>5. HasAll(s, n)'
    BY <1>1, <1>2, <1>8, <1>10, <2>2, <2>4 DEF HasAll, GotEnd, Complete
  <2>6. Served(s, n)'
    BY <1>1, <1>2, <1>4, <2>2, <2>5 DEF Served
  <2> QED BY <1>1, <1>2, <1>3, <1>7, <2>3, <2>4, <2>6 DEF IInv
<1> QED BY <1>5, <1>9, <1>10

LEMMA OneMore ==
    ASSUME NEW n \in Nat, NEW f
    PROVE  /\ [k \in 1 .. n + 1 |-> f[k]] \in Seq({f[k] : k \in 1 .. n + 1})
           /\ Len([k \in 1 .. n + 1 |-> f[k]]) = n + 1
           /\ Len([k \in 1 .. n |-> f[k]]) = n
           /\ Append([k \in 1 .. n |-> f[k]], f[n + 1]) = [k \in 1 .. n + 1 |-> f[k]]
<1> DEFINE S == {f[k] : k \in 1 .. n + 1}
           s == [k \in 1 .. n |-> f[k]]
           t == [k \in 1 .. n + 1 |-> f[k]]
<1>1. \A k \in 1 .. n + 1 : f[k] \in S
  OBVIOUS
<1> HIDE DEF S
<1>2. s \in Seq(S) /\ Len(s) = n /\ \A k \in 1 .. n : s[k] = f[k]
  BY <1>1
<1>3. t \in Seq(S) /\ Len(t) = n + 1 /\ \A k \in 1 .. n + 1 : t[k] = f[k]
  BY <1>1
<1>4. f[n + 1] \in S
  BY <1>1
<1> HIDE DEF s, t
<1>5. Append(s, f[n + 1]) = t
  BY <1>2, <1>3, <1>4
<1> QED BY <1>2, <1>3, <1>5 DEF s, t, S

LEMMA CellsGrow ==
    ASSUME NEW s, NEW r, NEW n \in Nat
    PROVE  /\ Append(Cells(s, r, n), ResultCell(s, r, n + 1)) = Cells(s, r, n + 1)
           /\ Len(Cells(s, r, n + 1)) = n + 1
<1> DEFINE f == [c \in 1 .. n + 1 |-> ResultCell(s, r, c)]
<1>1. /\ [c \in 1 .. n |-> f[c]] = Cells(s, r, n)
      /\ [c \in 1 .. n + 1 |-> f[c]] = Cells(s, r, n + 1)
      /\ f[n + 1] = ResultCell(s, r, n + 1)
  BY DEF Cells
<1> HIDE DEF f
<1>2. /\ Append([c \in 1 .. n |-> f[c]], f[n + 1]) = [c \in 1 .. n + 1 |-> f[c]]
      /\ Len([c \in 1 .. n + 1 |-> f[c]]) = n + 1
  BY OneMore
<1> QED BY <1>1, <1>2

LEMMA LinesGrow ==
    ASSUME NEW s, NEW n \in Nat
    PROVE  Append(Lines(s, n), Line(s, n + 1)) = Lines(s, n + 1)
<1> DEFINE f == [r \in 1 .. n + 1 |-> Line(s, r)]
<1>1. /\ [r \in 1 .. n |-> f[r]] = Lines(s, n)
      /\ [r \in 1 .. n + 1 |-> f[r]] = Lines(s, n + 1)
      /\ f[n + 1] = Line(s, n + 1)
  BY DEF Lines
<1> HIDE DEF f
<1>2. Append([r \in 1 .. n |-> f[r]], f[n + 1]) = [r \in 1 .. n + 1 |-> f[r]]
  BY OneMore
<1> QED BY <1>1, <1>2

LEMMA RecvColumnInv == IInv /\ RecvColumn => IInv'
<1> SUFFICES ASSUME IInv, RecvColumn PROVE IInv'
  OBVIOUS
<1> DEFINE s == Select
           cells == Append(row, Head(to_client).val)
<1>1. /\ client = "column" /\ to_client # << >> /\ to_client' = Tail(to_client)
      /\ UNCHANGED <<script, current, returned, to_server, call, stmt, errors>>
  BY DEF RecvColumn, Receive, server_vars
<1>2. s \in Selects /\ NumRows[s.sql] \in Nat /\ s' = s
  BY <1>1, SelectsAre DEF Select
<1>3. Len(returned) = current - 1 /\ StreamsOK
  BY <1>1 DEF IInv, Serving
<1>4. PICK n \in 0 .. NumRows[s.sql] : Served(s, n)
  BY <1>1 DEF IInv, Serving
<1>5. results = Lines(s, n) /\ AwaitsColumn(s, n)
  BY <1>1, <1>4 DEF Served
<1> HIDE DEF s
<1>6. PICK c \in 1 .. Len(s.cols) :
        /\ row = Cells(s, n + 1, c - 1) /\ Pending = << >>
        /\ to_client = <<[type |-> s.cols[c], val |-> ResultCell(s, n + 1, c)]>>
  BY <1>1, <1>5 DEF AwaitsColumn
<1>7. n < NumRows[s.sql] /\ stmt = StmtOn(s, n + 1) /\ n \in Nat
  BY <1>2, <1>5 DEF AwaitsColumn
<1>8. /\ s.cols \in Seq(Types) /\ Len(s.cols) \in Nat \ {0} /\ c \in Nat \ {0}
  BY <1>2, SelectIs
<1>9. call = << >> /\ to_server = << >> /\ to_client' = << >>
  BY <1>1, <1>3, <1>6, NothingPending
<1>10. ReturnedOK'
  BY <1>1, ReturnedKept DEF IInv
<1>11. cells = Cells(s, n + 1, c) /\ Len(cells) = c
  <2>1. Head(to_client).val = ResultCell(s, n + 1, c)
    BY <1>6
  <2>2. c - 1 \in Nat /\ (c - 1) + 1 = c
    BY <1>8
  <2>3. /\ Append(Cells(s, n + 1, c - 1), ResultCell(s, n + 1, c)) = Cells(s, n + 1, c)
        /\ Len(Cells(s, n + 1, c)) = c
    BY <2>2, CellsGrow
  <2> QED BY <1>6, <2>1, <2>3
<1> HIDE DEF cells
<1>12. CASE c < Len(s.cols)
  <2>1. /\ todo' = <<TypedCmd("column", s.cols[c + 1]), Number(c + 1 - 1)>>
        /\ client' = "column" /\ row' = cells /\ results' = results
    BY <1>11, <1>12 DEF RecvColumn, GetColumn, ColumnIndex, s, cells
  <2>2. c + 1 \in 1 .. Len(s.cols) /\ s.cols[c + 1] \in Types /\ (c + 1) - 1 = c
    BY <1>8, <1>12
  <2>3. todo' \in Seq(Frame) /\ Framed(todo', Len(todo'))
    <3>1. todo' = <<TypedCmd("column", s.cols[c + 1]), Number(c)>> /\ c \in Nat
      BY <1>8, <2>1, <2>2
    <3> QED BY <2>2, <3>1, SmallCalls
  <2>4. StreamsOK' /\ Pending' = todo'
    BY <1>1, <1>9, <2>3, AllSent
  <2>5. AwaitsColumn(s, n)'
    BY <1>1, <1>2, <1>7, <1>9, <1>11, <2>1, <2>2, <2>4 DEF AwaitsColumn
  <2>6. Served(s, n)'
    BY <1>1, <1>2, <1>4, <1>5, <2>1, <2>5 DEF Served
  <2> QED BY <1>1, <1>2, <1>3, <1>4, <1>10, <2>3, <2>4, <2>6 DEF IInv, s
<1>13. CASE c = Len(s.cols)
  <2>1. /\ results' = Append(results, cells)
        /\ todo' = <<Cmd("step")>> /\ client' = "status"
    BY <1>11, <1>13 DEF RecvColumn, s, cells
  <2>2. results' = Lines(s, n + 1)
    BY <1>5, <1>7, <1>11, <1>13, <2>1, LinesGrow DEF Line
  <2>3. todo' \in Seq(Frame) /\ Framed(todo', Len(todo'))
    BY <2>1, SmallCalls
  <2>4. StreamsOK' /\ Pending' = todo'
    BY <1>1, <1>9, <2>3, AllSent
  <2>5. Steps(s, n + 1)'
    BY <1>1, <1>2, <1>7, <1>9, <2>1, <2>4 DEF Steps
  <2>6. Served(s, n + 1)'
    BY <1>1, <1>2, <1>4, <2>1, <2>2, <2>5 DEF Served, AwaitsStatus
  <2>7. n + 1 \in 0 .. NumRows[s.sql]
    BY <1>2, <1>7
  <2> QED BY <1>1, <1>2, <1>3, <1>10, <2>3, <2>4, <2>6, <2>7 DEF IInv, s
<1> QED BY <1>8, <1>12, <1>13

(* The script has the results of a select, and goes on.                    *)
LEMMA ReturnsOne ==
    ASSUME IInv, Return
    PROVE  ReturnedOK' /\ Len(returned') = current
<1> DEFINE s == Select
<1>1. /\ client = "return" /\ returned' = Append(returned, results)
      /\ UNCHANGED <<script, errors>>
  BY DEF Return, server_vars
<1>2. /\ Len(returned) = current - 1 /\ ReturnedOK /\ current \in 1 .. Len(script)
      /\ s \in Selects /\ NumRows[s.sql] \in Nat
  BY <1>1, SelectsAre DEF IInv, Serving
<1>3. PICK n \in 0 .. NumRows[s.sql] : results = Lines(s, n) /\ Complete(s, n)
  BY <1>1 DEF IInv, Serving, Served, HasAll
<1>4. /\ returned \in Seq(AllResults) /\ Lines(s, n) \in AllResults
      /\ Len(script) \in Nat
  <2>1. script \in Seq(Selects)
    BY VisAdapterAssumption DEF IInv
  <2>2. n \in Nat
    BY <1>2
  <2> HIDE DEF s
  <2> QED BY <1>2, <2>1, <2>2 DEF ReturnedOK, AllResults
<1> HIDE DEF s
<1>5. /\ returned' \in Seq(AllResults) /\ Len(returned') = Len(returned) + 1
      /\ \A i \in 1 .. Len(returned) : returned'[i] = returned[i]
      /\ returned'[Len(returned) + 1] = Lines(s, n)
  BY <1>1, <1>3, <1>4
<1>6. Len(returned') = current /\ returned'[current] = Lines(s, n)
  BY <1>2, <1>5
<1>7. ASSUME NEW i \in 1 .. Len(returned')
      PROVE  \E m \in 0 .. NumRows[script[i].sql] :
                returned'[i] = Lines(script[i], m) /\ (m = NumRows[script[i].sql] \/ i \in errors)
  <2>1. CASE i = current
    <3>1. script[i] = s
      BY <2>1 DEF s, Select
    <3> QED BY <1>3, <1>6, <2>1, <3>1 DEF Complete
  <2>2. CASE i # current
    <3>1. i \in 1 .. Len(returned)
      BY <1>2, <1>6, <2>2
    <3> QED BY <1>2, <1>5, <3>1 DEF ReturnedOK
  <2> QED BY <2>1, <2>2
<1>8. Len(returned') <= Len(script)
  BY <1>2, <1>6
<1> QED BY <1>1, <1>5, <1>6, <1>7, <1>8 DEF ReturnedOK

LEMMA ReturnInv == IInv /\ Return => IInv'
<1> SUFFICES ASSUME IInv, Return PROVE IInv'
  OBVIOUS
<1>1. /\ client = "return" /\ todo = << >>
      /\ UNCHANGED <<script, to_server, to_client, call, stmt, errors>>
      /\ results' = << >> /\ script \in Seq(Selects)
  BY VisAdapterAssumption DEF Return, server_vars, IInv
<1>2. ReturnedOK' /\ Len(returned') = current
  BY ReturnsOne
<1>3. /\ to_client = << >>
      /\ Pending = << >> \/ Pending = <<Cmd("finalize")>>
      /\ StreamsOK /\ Framed(Pending, Len(Pending)) /\ current \in 1 .. Len(script)
  BY <1>1 DEF IInv, Serving, Served, HasAll
<1>4. ASSUME todo' \in Seq(Frame)
      PROVE  StreamsOK' /\ (Pending' = todo' \/ Pending' = <<Cmd("finalize")>> \o todo')
  <2>1. call \in Seq(Frame) /\ to_server \in Seq(Frame)
    BY <1>3 DEF StreamsOK
  <2>2. Pending = call \o to_server
    <3>1. call \o to_server \in Seq(Frame)
      BY <2>1
    <3> HIDE <1>3
    <3> QED BY <1>1, <3>1, ConcatEmptySeq DEF Pending
  <2>3. Pending' = Pending \o todo'
    BY <1>1, <2>2 DEF Pending
  <2>4. << >> \o todo' = todo'
    BY <1>4
  <2> QED BY <1>1, <1>3, <1>4, <2>3, <2>4 DEF StreamsOK
<1>5. CASE client' = "raise" /\ UNCHANGED <<todo, current>>
  <2>1. StreamsOK' /\ Pending' = Pending
    BY <1>1, <1>3, <1>5 DEF StreamsOK, Pending
  <2> QED BY <1>1, <1>2, <1>3, <1>5, <2>1, Leaves DEF Serving
<1>6. CASE client' = "end" /\ todo' = <<Cmd("exit")>> /\ UNCHANGED current
  <2>1. todo' \in Seq(Frame) /\ Framed(todo', Len(todo'))
    BY <1>6, SmallCalls
  <2>2. StreamsOK' /\ Framed(Pending', Len(Pending'))
    BY <1>4, <2>1, NextFramed
  <2> QED BY <1>1, <1>2, <1>6, <2>2, Leaves DEF Serving
<1>7. CASE /\ current # Len(script)
           /\ client' = AfterOpening(script[current + 1])
           /\ todo' = Opening(script[current + 1]) /\ current' = current + 1
  <2>0. current + 1 \in 1 .. Len(script) /\ (current + 1) - 1 = current
    <3>1. Len(script) \in Nat
      BY <1>1
    <3> QED BY <1>3, <1>7, <3>1
  <2>1. PICK next \in Selects : script[current + 1] = next
    BY <1>1, <2>0
  <2>2. client' = AfterOpening(next) /\ todo' = Opening(next) /\ Select' = next
    BY <1>1, <1>7, <2>1 DEF Select
  <2>3. todo' \in Seq(Frame)
    BY <2>1, <2>2, OpeningIs
  <2>4. StreamsOK' /\ (Pending' = Opening(next) \/ Pending' = <<Cmd("finalize")>> \o Opening(next))
    BY <1>4, <2>2, <2>3
  <2>5. Framed(Pending', Len(Pending'))
    BY <2>1, <2>4, OpeningsFramed
  <2>6. NumRows[next.sql] \in Nat /\ 0 \in 0 .. NumRows[next.sql]
    <3>1. NumRows[next.sql] \in Nat
      BY <2>1, SelectIs, VisAdapterAssumption
    <3> QED BY <3>1
  <2>7. Served(next, 0)'
    <3>1. Opens(next, 0)'
      BY <1>1, <1>3, <2>4 DEF Opens
    <3>2. results' = Lines(next, 0)
      BY <1>1, LinesStart
    <3>3. /\ client' = "raise" \/ client' = "status"
          /\ client' = "status" => ~ Raises(next.params)
      BY <2>2 DEF AfterOpening
    <3> QED BY <3>1, <3>2, <3>3 DEF Served, AwaitsStatus
  <2>8. script' \in Scripts /\ current' \in 1 .. Len(script')
    BY <1>1, <1>7, <2>0 DEF IInv
  <2>9. Served(Select, 0)' /\ NumRows[Select'.sql] = NumRows[next.sql]
    BY <2>2, <2>7
  <2> QED BY <1>2, <1>7, <2>0, <2>4, <2>5, <2>6, <2>8, <2>9 DEF IInv
<1> QED BY <1>5, <1>6, <1>7 DEF Return

(***************************************************************************)
(* Frames that the server takes                                            *)
(***************************************************************************)
LEMMA PerformIs ==
    /\ \A args : Perform(<<"stmt">>, args) =>
          stmt' = Prepared(args[1].val[1]) /\ UNCHANGED <<to_client, errors>>
    /\ \A type, args : Perform(<<"bind", type>>, args) =>
          stmt' = Bound(args[1].val, args[2].val) /\ UNCHANGED <<to_client, errors>>
    /\ \A type, args : Perform(<<"column", type>>, args) =>
          /\ UNCHANGED <<stmt, errors>>
          /\ to_client' = Append(to_client, [type |-> type, val |-> Cell(args[1].val)])
    /\ \A args : Perform(<<"finalize">>, args) => UNCHANGED <<to_client, stmt, errors>>
    /\ \A args : Perform(<<"step">>, args) => Step
    /\ \A cmd, args : Perform(cmd, args) => errors \subseteq errors'
<1>1. \A args : Perform(<<"stmt">>, args) =>
         stmt' = Prepared(args[1].val[1]) /\ UNCHANGED <<to_client, errors>>
  BY DEF Perform
<1>2. \A type, args : Perform(<<"bind", type>>, args) =>
         stmt' = Bound(args[1].val, args[2].val) /\ UNCHANGED <<to_client, errors>>
  BY DEF Perform
<1>3. \A type, args : Perform(<<"column", type>>, args) =>
         /\ UNCHANGED <<stmt, errors>>
         /\ to_client' = Append(to_client, [type |-> type, val |-> Cell(args[1].val)])
  BY DEF Perform
<1>4. \A args : Perform(<<"finalize">>, args) => UNCHANGED <<to_client, stmt, errors>>
  BY DEF Perform
<1>5. \A args : Perform(<<"step">>, args) => Step
  BY DEF Perform
<1>6. \A cmd, args : Perform(cmd, args) => errors \subseteq errors'
  BY DEF Perform, Step
<1> QED BY <1>1, <1>2, <1>3, <1>4, <1>5, <1>6

(* A frame begins or continues a call and stays pending, or the first call *)
(* of the stream is complete: it is performed, and gone.                   *)
Takes(m, args) ==
    /\ m = 1 + NumArguments(Pending[1].val)
    /\ \A i \in 1 .. m - 1 : args[i] = Pending[1 + i]
    /\ Perform(Pending[1].val, args)
    /\ Len(Pending') = Len(Pending) - m
    /\ \A i \in 1 .. Len(Pending) - m : Pending'[i] = Pending[m + i]

LEMMA ListenMoves ==
    ASSUME StreamsOK, Listen
    PROVE  /\ StreamsOK'
           /\ \/ Pending' = Pending /\ UNCHANGED <<to_client, stmt, errors>>
              \/ \E args : \E m \in 1 .. Len(Pending) : Takes(m, args)
<1> DEFINE h == Head(to_server)
           t == Tail(to_server)
           frames == Append(call, h)
           c == Len(call)
<1>1. /\ call \in Seq(Frame) /\ to_server \in Seq(Frame) /\ todo \in Seq(Frame)
      /\ to_server # << >> /\ to_server' = t /\ todo' = todo
  BY DEF StreamsOK, Listen, script_vars
<1>2. /\ h \in Frame /\ t \in Seq(Frame) /\ to_server = <<h>> \o t
      /\ Len(t) = Len(to_server) - 1 /\ Len(to_server) \in Nat \ {0}
      /\ h = to_server[1] /\ \A i \in 1 .. Len(t) : t[i] = to_server[i + 1]
  BY <1>1
<1>3. /\ frames \in Seq(Frame) /\ Len(frames) = c + 1 /\ c \in Nat
      /\ \A i \in 1 .. c : frames[i] = call[i]
      /\ frames[c + 1] = h
      /\ frames = call \o <<h>>
  BY <1>1, <1>2, AppendIsConcat
<1>4. \/ /\ Len(frames) <= NumArguments(frames[1].val)
         /\ call' = frames /\ UNCHANGED <<to_client, stmt, errors>>
      \/ /\ ~ (Len(frames) <= NumArguments(frames[1].val))
         /\ call' = << >> /\ Perform(frames[1].val, Tail(frames))
  BY DEF Listen, NumArguments
<1> HIDE DEF h, t, frames, c
<1>5. CASE /\ Len(frames) <= NumArguments(frames[1].val)
           /\ call' = frames /\ UNCHANGED <<to_client, stmt, errors>>
  <2>1. <<h>> \in Seq(Frame)
    BY <1>2
  <2>2. Pending' = Cat(Cat(Cat(call, <<h>>), t), todo)
    BY <1>1, <1>3, <1>5 DEF Pending, Cat
  <2>3. Pending = Cat(Cat(call, Cat(<<h>>, t)), todo)
    BY <1>2 DEF Pending, Cat
  <2>4. Pending' = Pending
    <3> DEFINE one == <<h>>
    <3>1. call \in Seq(Frame) /\ one \in Seq(Frame) /\ t \in Seq(Frame)
      BY <1>1, <1>2, <2>1
    <3> HIDE DEF one
    <3>2. Cat(Cat(call, one), t) = Cat(call, Cat(one, t))
      BY <3>1, CatAssociative
    <3> QED BY <2>2, <2>3, <3>2 DEF one
  <2>5. StreamsOK'
    BY <1>1, <1>2, <1>3, <1>5 DEF StreamsOK
  <2> QED BY <1>5, <2>4, <2>5
<1>6. CASE /\ ~ (Len(frames) <= NumArguments(frames[1].val))
           /\ call' = << >> /\ Perform(frames[1].val, Tail(frames))
  <2> DEFINE m == c + 1
             args == Tail(frames)
  <2>1. /\ Len(Pending) = c + Len(to_server) + Len(todo) /\ Len(todo) \in Nat
        /\ \A i \in 1 .. c : Pending[i] = call[i]
        /\ \A i \in 1 .. Len(to_server) : Pending[c + i] = to_server[i]
        /\ \A i \in 1 .. Len(todo) : Pending[c + Len(to_server) + i] = todo[i]
    BY PendingIs DEF c
  <2>2. \A i \in 1 .. m : frames[i] = Pending[i]
    <3>1. Pending[c + 1] = to_server[1]
      BY <1>2, <2>1
    <3>2. \A i \in 1 .. m : i \in 1 .. c \/ i = c + 1
      BY <1>3
    <3> QED BY <1>2, <1>3, <2>1, <3>1, <3>2
  <2>3. m \in 1 .. Len(Pending) /\ frames[1] = Pending[1]
    BY <1>2, <1>3, <2>1, <2>2
  <2>4. m = 1 + NumArguments(Pending[1].val)
    <3>1. NumArguments(Pending[1].val) \in 0 .. 2
      BY FewArguments
    <3>2. c > 0 => c <= NumArguments(Pending[1].val)
      <4> SUFFICES ASSUME c > 0 PROVE c <= NumArguments(Pending[1].val)
        OBVIOUS
      <4>1. call # << >>
        BY <1>1 DEF c
      <4>2. 1 \in 1 .. c /\ call[1] = Pending[1]
        BY <1>3, <2>1
      <4> QED BY <4>1, <4>2 DEF StreamsOK, c
    <3> QED BY <1>3, <1>6, <2>3, <3>1, <3>2
  <2>5. \A i \in 1 .. m - 1 : args[i] = Pending[1 + i]
    <3>1. \A i \in 1 .. m - 1 : args[i] = frames[i + 1] /\ i + 1 \in 1 .. m /\ 1 + i = i + 1
      BY <1>3
    <3> HIDE DEF args, m
    <3> QED BY <2>2, <3>1
  <2>6. << >> \in Seq(Frame) /\ Len(<< >>) = 0
    OBVIOUS
  <2>7. StreamsOK'
    BY <1>1, <1>2, <1>6, <2>6 DEF StreamsOK
  <2>8. /\ Len(Pending') = Len(t) + Len(todo)
        /\ \A i \in 1 .. Len(t) : Pending'[i] = t[i]
        /\ \A i \in 1 .. Len(todo) : Pending'[Len(t) + i] = todo[i]
    <3>1. Pending' = t \o todo
      <4>1. Pending' = (<< >> \o t) \o todo
        BY <1>1, <1>6 DEF Pending
      <4>2. << >> \o t = t
        BY <1>2
      <4> QED BY <4>1, <4>2
    <3>2. t \in Seq(Frame) /\ todo \in Seq(Frame)
      BY <1>1, <1>2
    <3> QED BY <3>1, <3>2, ConcatIs
  <2>9. Len(Pending') = Len(Pending) - m
    BY <1>2, <1>3, <2>1, <2>8
  <2>10. ASSUME NEW i \in 1 .. Len(Pending) - m PROVE Pending'[i] = Pending[m + i]
    <3>1. CASE i <= Len(t)
      <4>1. i \in 1 .. Len(t) /\ i + 1 \in 1 .. Len(to_server) /\ c + (i + 1) = m + i
        BY <1>2, <1>3, <3>1
      <4>2. Pending'[i] = t[i] /\ t[i] = to_server[i + 1]
        BY <1>2, <2>8, <4>1
      <4>3. Pending[c + (i + 1)] = to_server[i + 1]
        BY <2>1, <4>1
      <4> QED BY <4>1, <4>2, <4>3
    <3>2. CASE ~ (i <= Len(t))
      <4>1. /\ i - Len(t) \in 1 .. Len(todo) /\ Len(t) + (i - Len(t)) = i
            /\ c + Len(to_server) + (i - Len(t)) = m + i
        BY <1>2, <1>3, <2>1, <3>2
      <4>2. Pending'[Len(t) + (i - Len(t))] = todo[i - Len(t)]
        BY <2>8, <4>1
      <4>3. Pending[c + Len(to_server) + (i - Len(t))] = todo[i - Len(t)]
        BY <2>1, <4>1
      <4> QED BY <4>1, <4>2, <4>3
    <3> QED BY <3>1, <3>2
  <2>11. Perform(Pending[1].val, args)
    BY <1>6, <2>3
  <2> HIDE DEF m, args
  <2>12. Takes(m, args)
    BY <2>4, <2>5, <2>9, <2>10, <2>11 DEF Takes
  <2> QED BY <2>3, <2>7, <2>12
<1> QED BY <1>4, <1>5, <1>6

LEMMA TakenIs ==
    ASSUME NEW cmd, Pending[1].val = cmd, NEW args, NEW m, Takes(m, args), NEW n \in 0 .. 2,
           NumArguments(cmd) = n
    PROVE  /\ m = 1 + n /\ Perform(cmd, args)
           /\ n > 0 => args[1] = Pending[2]
           /\ n > 1 => args[2] = Pending[3]
<1>1. m = 1 + NumArguments(Pending[1].val) /\ Perform(Pending[1].val, args)
  BY Zenon DEF Takes
<1>2. m = 1 + n /\ Perform(cmd, args)
  BY Zenon, <1>1
<1>3. \A i \in 1 .. m - 1 : args[i] = Pending[1 + i]
  BY Zenon DEF Takes
<1>4. n > 0 => 1 \in 1 .. m - 1
  BY <1>2
<1>5. n > 1 => 2 \in 1 .. m - 1
  BY <1>2
<1>6. n > 0 => args[1] = Pending[1 + 1]
  BY <1>3, <1>4
<1>7. n > 1 => args[2] = Pending[1 + 2]
  BY <1>3, <1>5
<1> QED BY <1>2, <1>6, <1>7

(* What a select has pending after a call, one lemma for each phase.       *)
LEMMA FinalizeDone ==
    ASSUME Pending[1] = Cmd("finalize"), NEW args, NEW m, Takes(m, args)
    PROVE  m = 1 /\ UNCHANGED <<to_client, stmt, errors>>
<1>1. Pending[1].val = <<"finalize">>
  BY DEF Cmd, Text
<1>2. NumArguments(<<"finalize">>) = 0
  BY ArgumentsOf
<1>3. m = 1 + 0 /\ Perform(<<"finalize">>, args)
  BY <1>1, <1>2, TakenIs
<1> QED BY <1>3, PerformIs

LEMMA FinalizeTaken ==
    ASSUME NEW o \in Seq(Frame), Pending = <<Cmd("finalize")>> \o o, Pending' \in Seq(Frame),
           NEW args, NEW m \in 1 .. Len(Pending), Takes(m, args)
    PROVE  Pending' = o /\ UNCHANGED <<to_client, stmt, errors>>
<1> DEFINE f == <<Cmd("finalize")>>
<1>1. f \in Seq(Frame) /\ Len(f) = 1 /\ f[1] = Cmd("finalize")
  BY FrameOf
<1>2. Pending = f \o o
  OBVIOUS
<1> HIDE DEF f
<1>3. /\ Len(o) \in Nat /\ Len(Pending) = 1 + Len(o) /\ Pending[1] = Cmd("finalize")
      /\ \A i \in 1 .. Len(o) : Pending[1 + i] = o[i]
  <2>1. f \in Seq(Frame) /\ o \in Seq(Frame)
    BY <1>1
  <2>2. /\ Len(o) \in Nat /\ Len(f \o o) = Len(f) + Len(o)
        /\ \A i \in 1 .. Len(f) : (f \o o)[i] = f[i]
        /\ \A i \in 1 .. Len(o) : (f \o o)[Len(f) + i] = o[i]
    BY <2>1, ConcatIs
  <2> QED BY <1>1, <1>2, <2>2
<1>4. m = 1 /\ UNCHANGED <<to_client, stmt, errors>>
  BY <1>3, FinalizeDone
<1>6. Len(Pending') = Len(o) /\ \A i \in 1 .. Len(o) : Pending'[i] = o[i]
  <2>1. Len(Pending) - 1 = Len(o)
    BY <1>3
  <2>2. /\ Len(Pending') = Len(Pending) - 1
        /\ \A i \in 1 .. Len(Pending) - 1 : Pending'[i] = Pending[1 + i]
    BY <1>4 DEF Takes
  <2> QED BY <1>3, <2>1, <2>2
<1>7. Pending' = o
  <2> DEFINE q == Pending'
  <2>1. q \in Seq(Frame) /\ o \in Seq(Frame) /\ Len(q) = Len(o) /\ \A i \in 1 .. Len(q) : q[i] = o[i]
    BY <1>6
  <2> HIDE DEF q
  <2>2. q = o
    BY <2>1, SeqEqual
  <2> QED BY <2>2 DEF q
<1> QED BY <1>4, <1>7

LEMMA OpensTaken ==
    ASSUME NEW s \in Selects, NEW n, ~ Raises(s.params), Opens(s, n), Pending' \in Seq(Frame),
           NEW args, NEW m \in 1 .. Len(Pending), Takes(m, args)
    PROVE  Opens(s, n)' \/ Binds(s, n)'
<1>1. n = 0 /\ to_client = << >>
  BY DEF Opens
<1>2. CASE Pending = <<Cmd("finalize")>> \o Opening(s)
  <2>1. Opening(s) \in Seq(Frame)
    BY OpeningIs
  <2>2. Pending' = Opening(s) /\ UNCHANGED <<to_client, stmt, errors>>
    BY <1>2, <2>1, FinalizeTaken
  <2> QED BY <1>1, <2>2 DEF Opens
<1>3. CASE Pending = Opening(s)
  <2> DEFINE k == Len(s.params)
  <2>1. /\ s.params \in Seq(Params) /\ k \in Nat /\ Sendable(s.params) = k
    BY SelectIs, SendableIs
  <2>2. /\ Pending[1] = Cmd("stmt") /\ Pending[2] = Text(<<s.sql>>)
        /\ Len(Pending) = 3 * k + 3
    BY <1>3, <2>1, OpeningIs
  <2>3. Perform(<<"stmt">>, args) /\ m = 1 + 1 /\ args[1] = Pending[2]
    <3>1. Pending[1].val = <<"stmt">>
      BY <2>2 DEF Cmd, Text
    <3>2. NumArguments(<<"stmt">>) = 1
      BY ArgumentsOf
    <3> QED BY <3>1, <3>2, TakenIs
  <2>4. stmt' = Prepared(args[1].val[1]) /\ UNCHANGED to_client
    BY <2>3, PerformIs
  <2>5. args[1].val[1] = s.sql
    BY <2>2, <2>3 DEF Text
  <2>6. stmt' = StmtWith(s, 0)
    <3>1. << >> = [i \in 1 .. 0 |-> s.params[i].val]
      OBVIOUS
    <3> QED BY <2>4, <2>5, <3>1 DEF Prepared, StmtWith
  <2>7. /\ Len(Pending') = 3 * (k - 0) + 1
        /\ \A i \in 1 .. Len(Pending') : Pending'[i] = Opening(s)[3 * 0 + 2 + i]
    BY <1>3, <2>1, <2>2, <2>3 DEF Takes
  <2>8. 0 \in 0 .. k
    BY <2>1
  <2> QED BY <1>1, <2>4, <2>6, <2>7, <2>8 DEF Binds
<1> QED BY <1>2, <1>3 DEF Opens

LEMMA StepTaken ==
    ASSUME NEW s \in Selects, NEW n \in 0 .. NumRows[s.sql], stmt = StmtOn(s, n),
           to_client = << >>, Pending[1] = Cmd("step"), Len(Pending) = 1, Pending' \in Seq(Frame),
           UNCHANGED current,
           NEW args, NEW m \in 1 .. Len(Pending), Takes(m, args)
    PROVE  GotRow(s, n)' \/ GotEnd(s, n)'
<1>1. Pending[1].val = <<"step">>
  BY DEF Cmd, Text
<1>2. Step
  BY <1>1, PerformIs DEF Takes
<1>3. Pending' = << >>
  <2>1. Len(Pending') = 0
    BY <1>1, ArgumentsOf DEF Takes
  <2> QED BY <2>1, EmptySeq
<1>4. stmt.row = n /\ stmt.sql = s.sql /\ NumRows[s.sql] \in Nat /\ n \in Nat
  <2>1. NumRows[s.sql] \in Nat
    BY SelectIs, VisAdapterAssumption
  <2> QED BY <2>1 DEF StmtOn
<1>5. Status("row") = <<Number(1)>> /\ Status("done") = <<Number(0)>> /\ Status("error") = <<Number(0)>>
  BY DEF Status
<1>6. CASE /\ to_client' = to_client
                \o Status(IF stmt.row < NumRows[stmt.sql] THEN "row" ELSE "done")
           /\ stmt' = [stmt EXCEPT !.row = @ + 1] /\ UNCHANGED errors
  <2>1. CASE n < NumRows[s.sql]
    <3>1. to_client' = <<Number(1)>>
      BY <1>4, <1>5, <1>6, <2>1
    <3>2. stmt' = StmtOn(s, n + 1)
      BY <1>6 DEF StmtOn
    <3> QED BY <1>3, <2>1, <3>1, <3>2 DEF GotRow
  <2>2. CASE ~ (n < NumRows[s.sql])
    <3>1. to_client' = <<Number(0)>>
      BY <1>4, <1>5, <1>6, <2>2
    <3>2. n = NumRows[s.sql]
      BY <1>4, <2>2
    <3> QED BY <1>3, <3>1, <3>2 DEF GotEnd, Complete
  <2> QED BY <2>1, <2>2
<1>7. CASE errors' = errors \cup {current} /\ to_client' = to_client \o Status("error")
  <2>1. to_client' = <<Number(0)>>
    BY <1>5, <1>7
  <2>2. current \in errors'
    BY <1>7
  <2> QED BY <1>3, <2>1, <2>2 DEF GotEnd, Complete
<1> QED BY <1>2, <1>6, <1>7 DEF Step

LEMMA BoundGrows ==
    ASSUME NEW s \in Selects, NEW j \in 0 .. Len(s.params) - 1, stmt = StmtWith(s, j)
    PROVE  Bound(j + 1, s.params[j + 1].val) = StmtWith(s, j + 1)
<1>1. Len(s.params) \in Nat
  BY SelectIs
<1>2. /\ stmt.sql = s.sql /\ stmt.row = 0
      /\ stmt.bound = [i \in 1 .. j |-> s.params[i].val]
  BY DEF StmtWith
<1>3. [i \in DOMAIN stmt.bound \cup {j + 1} |->
          IF i = j + 1 THEN s.params[j + 1].val ELSE stmt.bound[i]]
        = [i \in 1 .. j + 1 |-> s.params[i].val]
  <2>1. DOMAIN stmt.bound \cup {j + 1} = 1 .. j + 1
    BY <1>1, <1>2
  <2>2. \A i \in 1 .. j + 1 : i # j + 1 => stmt.bound[i] = s.params[i].val
    BY <1>1, <1>2
  <2> QED BY <2>1, <2>2
<1>4. Bound(j + 1, s.params[j + 1].val)
        = [sql |-> s.sql, bound |-> [i \in 1 .. j + 1 |-> s.params[i].val], row |-> 0]
  <2> DEFINE b == [i \in 1 .. j + 1 |-> s.params[i].val]
             v == s.params[j + 1].val
  <2>1. Bound(j + 1, v) = [stmt EXCEPT !.bound =
                              [i \in DOMAIN stmt.bound \cup {j + 1} |->
                                  IF i = j + 1 THEN v ELSE stmt.bound[i]]]
    BY DEF Bound
  <2>2. Bound(j + 1, v) = [stmt EXCEPT !.bound = b]
    BY <1>3, <2>1
  <2> HIDE DEF b, v
  <2>3. [stmt EXCEPT !.bound = b] = [sql |-> s.sql, bound |-> b, row |-> 0]
    BY DEF StmtWith
  <2> QED BY <2>2, <2>3 DEF b, v
<1> QED BY <1>4 DEF StmtWith

LEMMA BindsTaken ==
    ASSUME NEW s \in Selects, NEW n \in 0 .. NumRows[s.sql], ~ Raises(s.params), Binds(s, n),
           Pending' \in Seq(Frame), UNCHANGED current,
           NEW args, NEW m \in 1 .. Len(Pending), Takes(m, args)
    PROVE  Binds(s, n)' \/ GotRow(s, n)' \/ GotEnd(s, n)'
<1> DEFINE k == Len(s.params)
<1>1. n = 0 /\ to_client = << >>
  BY DEF Binds
<1>2. PICK j \in 0 .. k :
        /\ stmt = StmtWith(s, j)
        /\ Len(Pending) = 3 * (k - j) + 1
        /\ \A i \in 1 .. Len(Pending) : Pending[i] = Opening(s)[3 * j + 2 + i]
  BY DEF Binds
<1>3. /\ s.params \in Seq(Params) /\ k \in Nat /\ Sendable(s.params) = k
      /\ \A i \in 1 .. k : s.params[i].type # "text" /\ s.params[i] \in Params
  <2>1. s.params \in Seq(Params)
    BY SelectIs
  <2>2. \A i \in 1 .. k : s.params[i].type # "text"
    BY <2>1 DEF Raises
  <2> QED BY <2>1, <2>2, SendableIs
<1>4. /\ \A i \in 1 .. k :
            /\ Opening(s)[3 * i] = TypedCmd("bind", s.params[i].type)
            /\ Opening(s)[3 * i + 1] = Number(i)
            /\ Opening(s)[3 * i + 2] = s.params[i]
      /\ Opening(s)[3 * k + 3] = Cmd("step")
  BY <1>3, OpeningIs
<1> HIDE DEF k
<1>5. CASE j < k
  <2> DEFINE i == j + 1
  <2>1. /\ i \in 1 .. k /\ j \in Nat
        /\ 3 * j + 2 + 1 = 3 * i /\ 3 * j + 2 + 2 = 3 * i + 1 /\ 3 * j + 2 + 3 = 3 * i + 2
        /\ 1 \in 1 .. Len(Pending) /\ 2 \in 1 .. Len(Pending) /\ 3 \in 1 .. Len(Pending)
    <3>1. j \in Nat /\ k \in Nat /\ j < k /\ Len(Pending) = 3 * (k - j) + 1
      BY <1>2, <1>3, <1>5
    <3>2. i \in 1 .. k
      BY <3>1
    <3>3. k - j \in Nat \ {0}
      BY <3>1
    <3>4. \A d \in Nat \ {0} : 3 * d + 1 \in Nat /\ 3 * d + 1 >= 3
      OBVIOUS
    <3>5. Len(Pending) \in Nat /\ Len(Pending) >= 3
      BY <3>1, <3>3, <3>4
    <3>6. \A a \in Nat : /\ 3 * a + 2 + 1 = 3 * (a + 1) /\ 3 * a + 2 + 2 = 3 * (a + 1) + 1
                        /\ 3 * a + 2 + 3 = 3 * (a + 1) + 2
      OBVIOUS
    <3>7. j \in Nat
      BY <1>2
    <3>8. 3 * j + 2 + 1 = 3 * i /\ 3 * j + 2 + 2 = 3 * i + 1 /\ 3 * j + 2 + 3 = 3 * i + 2
      BY ONLY <3>6, <3>7
    <3>9. \A l \in Nat : l >= 3 => 1 \in 1 .. l /\ 2 \in 1 .. l /\ 3 \in 1 .. l
      OBVIOUS
    <3>10. 1 \in 1 .. Len(Pending) /\ 2 \in 1 .. Len(Pending) /\ 3 \in 1 .. Len(Pending)
      BY ONLY <3>5, <3>9
    <3> HIDE DEF i
    <3> QED BY ONLY <3>2, <3>7, <3>8, <3>10
  <2>2. /\ Pending[1] = Opening(s)[3 * j + 2 + 1]
        /\ Pending[2] = Opening(s)[3 * j + 2 + 2]
        /\ Pending[3] = Opening(s)[3 * j + 2 + 3]
    BY <1>2, <2>1
  <2>3. /\ Pending[1] = TypedCmd("bind", s.params[i].type)
        /\ Pending[2] = Number(i) /\ Pending[3] = s.params[i]
    BY <1>4, <2>1, <2>2
  <2>4. /\ Perform(<<"bind", s.params[i].type>>, args) /\ m = 1 + 2
        /\ args[1] = Pending[2] /\ args[2] = Pending[3]
    <3>1. Pending[1].val = <<"bind", s.params[i].type>>
      BY <2>3 DEF TypedCmd, Text
    <3>2. NumArguments(<<"bind", s.params[i].type>>) = 2
      BY ArgumentsOf
    <3> QED BY <3>1, <3>2, TakenIs
  <2>5. stmt' = Bound(args[1].val, args[2].val) /\ UNCHANGED to_client
    BY <2>4, PerformIs
  <2>6. args[1] = Number(i) /\ args[2] = s.params[i]
    BY <2>3, <2>4
  <2>7. stmt' = StmtWith(s, i)
    <3>1. j \in 0 .. k - 1
      BY <1>3, <1>5
    <3>2. Bound(j + 1, s.params[j + 1].val) = StmtWith(s, j + 1)
      BY <1>2, <3>1, BoundGrows DEF k
    <3>3. args[1].val = i
      BY <2>6 DEF Number
    <3> QED BY <2>5, <2>6, <3>2, <3>3
  <2>8. Len(Pending') = 3 * (k - i) + 1
    <3>1. Len(Pending') = Len(Pending) - m
      BY DEF Takes
    <3>2. j \in Nat /\ k \in Nat /\ m = 3 /\ Len(Pending) = 3 * (k - j) + 1
      BY <1>2, <1>3, <2>4
    <3> QED BY <3>1, <3>2
  <2>9. ASSUME NEW l \in 1 .. Len(Pending') PROVE Pending'[l] = Opening(s)[3 * i + 2 + l]
    <3>1. l \in 1 .. Len(Pending) - 3 /\ Pending'[l] = Pending[3 + l]
      BY <2>4 DEF Takes
    <3>2. 3 + l \in 1 .. Len(Pending) /\ 3 * j + 2 + (3 + l) = 3 * i + 2 + l
      <4>1. Len(Pending) \in Int /\ j \in Nat /\ l \in Nat
        BY <1>2, <1>3, <3>1
      <4>2. 3 + l \in 1 .. Len(Pending)
        BY <3>1, <4>1
      <4>3. 3 * j + 2 + (3 + l) = 3 * i + 2 + l
        BY <4>1
      <4> QED BY <4>2, <4>3
    <3>3. Pending[3 + l] = Opening(s)[3 * j + 2 + (3 + l)]
      BY <1>2, <3>2
    <3> QED BY <3>1, <3>2, <3>3
  <2>10. i \in 0 .. k /\ to_client' = << >>
    BY <1>1, <2>1, <2>5
  <2> HIDE DEF i
  <2> QED BY <1>1, <2>7, <2>8, <2>9, <2>10 DEF Binds, k
<1>6. CASE j = k
  <2>1. Len(Pending) = 1 /\ Pending[1] = Cmd("step")
    <3>1. Len(Pending) = 1 /\ 3 * j + 2 + 1 = 3 * k + 3
      BY <1>2, <1>3, <1>6
    <3>2. 1 \in 1 .. Len(Pending)
      BY <3>1
    <3>3. Pending[1] = Opening(s)[3 * j + 2 + 1]
      BY <1>2, <3>2
    <3> QED BY <1>4, <3>1, <3>3
  <2>2. stmt = StmtOn(s, n)
    <3>1. DOMAIN s.params = 1 .. k
      BY <1>3 DEF k
    <3> QED BY <1>1, <1>2, <1>6, <3>1 DEF StmtWith, StmtOn, Values
  <2> QED BY <1>1, <2>1, <2>2, StepTaken
<1> QED BY <1>3, <1>5, <1>6

LEMMA ColumnTaken ==
    ASSUME NEW s \in Selects, NEW n, AwaitsColumn(s, n), UNCHANGED row,
           Pending' \in Seq(Frame),
           NEW args, NEW m \in 1 .. Len(Pending), Takes(m, args)
    PROVE  AwaitsColumn(s, n)'
<1>1. n < NumRows[s.sql] /\ stmt = StmtOn(s, n + 1)
  BY DEF AwaitsColumn
<1>2. PICK c \in 1 .. Len(s.cols) :
        /\ row = Cells(s, n + 1, c - 1)
        /\ \/ /\ Pending = <<TypedCmd("column", s.cols[c]), Number(c - 1)>>
              /\ to_client = << >>
           \/ Pending = << >>
  BY DEF AwaitsColumn
<1>3. /\ Pending[1] = TypedCmd("column", s.cols[c]) /\ Pending[2] = Number(c - 1)
      /\ Len(Pending) = 2 /\ to_client = << >>
  BY <1>2
<1>4. Perform(<<"column", s.cols[c]>>, args) /\ m = 1 + 1 /\ args[1] = Pending[2]
  <2>1. Pending[1].val = <<"column", s.cols[c]>>
    BY <1>3 DEF TypedCmd, Text
  <2>2. NumArguments(<<"column", s.cols[c]>>) = 1
    BY ArgumentsOf
  <2> QED BY <2>1, <2>2, TakenIs
<1>5. /\ UNCHANGED stmt
      /\ to_client' = Append(to_client, [type |-> s.cols[c], val |-> Cell(args[1].val)])
  BY <1>4, PerformIs
<1>6. Cell(args[1].val) = ResultCell(s, n + 1, c)
  <2>1. args[1].val = c - 1
    BY <1>3, <1>4 DEF Number
  <2> QED BY <1>1, <2>1 DEF Cell, ResultCell, StmtOn
<1>7. to_client' = <<[type |-> s.cols[c], val |-> ResultCell(s, n + 1, c)]>>
  BY <1>3, <1>5, <1>6
<1>8. Pending' = << >>
  <2>1. Len(Pending') = 0
    BY <1>3, <1>4 DEF Takes
  <2> QED BY <2>1, EmptySeq
<1> QED BY <1>1, <1>2, <1>5, <1>7, <1>8 DEF AwaitsColumn

LEMMA ListenInv == IInv /\ Listen => IInv'
<1> SUFFICES ASSUME IInv, Listen PROVE IInv'
  OBVIOUS
<1>1. /\ UNCHANGED <<script, client, todo, current, results, row, returned>>
      /\ StreamsOK /\ Framed(Pending, Len(Pending))
  BY DEF Listen, script_vars, IInv
<1>2. /\ StreamsOK'
      /\ \/ Pending' = Pending /\ UNCHANGED <<to_client, stmt, errors>>
         \/ \E args : \E m \in 1 .. Len(Pending) : Takes(m, args)
  BY <1>1, ListenMoves
<1>3. CASE Pending' = Pending /\ UNCHANGED <<to_client, stmt, errors>>
  BY <1>1, <1>2, <1>3, SamePending
<1>4. CASE \E args : \E m \in 1 .. Len(Pending) : Takes(m, args)
  <2>1. PICK args : \E m \in 1 .. Len(Pending) : Takes(m, args)
    BY <1>4
  <2>2. PICK m \in 1 .. Len(Pending) : Takes(m, args)
    BY <2>1
  <2>3. Pending \in Seq(Frame) /\ Pending' \in Seq(Frame) /\ Len(Pending) \in Nat
    <3>1. Pending \in Seq(Frame)
      BY <1>1, PendingIs
    <3>2. Pending' \in Seq(Frame)
      BY <1>2, ThreeParts DEF StreamsOK, Pending
    <3> QED BY <3>1, <3>2
  <2>4. Framed(Pending', Len(Pending'))
    <3>1. /\ m = 1 + NumArguments(Pending[1].val)
          /\ Len(Pending') = Len(Pending) - m
          /\ \A i \in 1 .. Len(Pending) - m : Pending'[i] = Pending[m + i]
      BY <2>2 DEF Takes
    <3>2. Framed(Pending', Len(Pending) - m)
      BY <1>1, <2>3, <3>1, DropFramed
    <3> QED BY <3>1, <3>2
  <2>5. ReturnedOK' /\ errors \subseteq errors'
    <3>1. errors \subseteq errors'
      BY <2>2, PerformIs DEF Takes
    <3> QED BY <1>1, <3>1, ReturnedKept DEF IInv
  <2>6. CASE client \notin Serving
    BY <1>1, <1>2, <2>4, <2>5, <2>6, Leaves DEF Serving
  <2>7. CASE client \in Serving
    <3>1. Len(returned) = current - 1
      BY <2>7 DEF IInv
    <3>2. PICK s \in Selects : s = Select /\ Select' = s
      BY <1>1, SelectsAre DEF Select
    <3>3. PICK n \in 0 .. NumRows[s.sql] : Served(s, n)
      BY <2>7, <3>2 DEF IInv
    <3>4. Pending # << >>
      BY <2>2
    <3>5. ASSUME client = "status" PROVE Served(s, n)'
      <4>1. (Opens(s, n) \/ Binds(s, n) \/ Steps(s, n)) /\ ~ Raises(s.params)
        BY <3>3, <3>4, <3>5 DEF Served, AwaitsStatus, GotRow, GotEnd
      <4>2. ASSUME Opens(s, n) PROVE Opens(s, n)' \/ Binds(s, n)'
        BY <2>2, <2>3, <4>1, <4>2, OpensTaken
      <4>3. ASSUME Binds(s, n) PROVE Binds(s, n)' \/ GotRow(s, n)' \/ GotEnd(s, n)'
        BY <1>1, <2>2, <2>3, <4>1, <4>3, BindsTaken
      <4>4. ASSUME Steps(s, n) PROVE GotRow(s, n)' \/ GotEnd(s, n)'
        <5>1. /\ stmt = StmtOn(s, n) /\ to_client = << >>
              /\ Pending[1] = Cmd("step") /\ Len(Pending) = 1
          BY <4>4 DEF Steps
        <5> QED BY <1>1, <2>2, <2>3, <5>1, StepTaken
      <4>5. AwaitsStatus(s, n)'
        BY <4>1, <4>2, <4>3, <4>4 DEF AwaitsStatus
      <4> QED BY <1>1, <3>3, <3>5, <4>1, <4>5 DEF Served
    <3>6. ASSUME client = "column" PROVE Served(s, n)'
      <4>1. AwaitsColumn(s, n)'
        BY <1>1, <2>2, <2>3, <3>3, <3>6, ColumnTaken DEF Served
      <4> QED BY <1>1, <3>3, <3>6, <4>1 DEF Served
    <3>7. ASSUME client = "return" PROVE Served(s, n)'
      <4>1. HasAll(s, n) /\ Pending = <<Cmd("finalize")>>
        BY <3>3, <3>4, <3>7 DEF Served, HasAll
      <4>2. << >> \in Seq(Frame) /\ Pending = <<Cmd("finalize")>> \o << >>
        BY <4>1
      <4>3. Pending' = << >> /\ UNCHANGED to_client
        BY <2>2, <2>3, <4>2, FinalizeTaken
      <4>4. HasAll(s, n)'
        BY <1>1, <2>5, <4>1, <4>3 DEF HasAll, Complete
      <4> QED BY <1>1, <3>3, <3>7, <4>4 DEF Served
    <3>8. Served(s, n)'
      BY <2>7, <3>5, <3>6, <3>7 DEF Serving
    <3> QED BY <1>1, <1>2, <2>4, <2>5, <3>1, <3>2, <3>3, <3>8 DEF IInv
  <2> QED BY <2>6, <2>7
<1> QED BY <1>2, <1>3, <1>4

(***************************************************************************)
(* The theorems                                                            *)
(***************************************************************************)
LEMMA Invariant == Spec => []IInv
<1>1. Init => IInv
  BY InitInv
<1>2. IInv /\ [Next]_vars => IInv'
  <2> SUFFICES ASSUME IInv, [Next]_vars PROVE IInv'
    OBVIOUS
  <2>1. CASE Next
    BY <2>1, SendInv, RecvStatusInv, RecvColumnInv, ReturnInv, LeaveInv, ListenInv, DieInv
       DEF Next, Script
  <2>2. CASE UNCHANGED vars
    <3>1. /\ UNCHANGED <<script, client, current, results, row, returned, to_client, stmt, errors>>
          /\ UNCHANGED <<call, to_server, todo>>
      BY <2>2 DEF vars, script_vars, server_vars
    <3>2. StreamsOK' /\ Pending' = Pending
      BY <3>1 DEF IInv, StreamsOK, Pending
    <3> QED BY <3>1, <3>2, SamePending
  <2> QED BY <2>1, <2>2
<1> QED BY <1>1, <1>2, PTL DEF Spec

LEMMA ServerTakes ==
    ASSUME IInv, to_server # << >> PROVE Head(to_server).type = Expected
<1> DEFINE c == Len(call) + 1
<1>1. /\ call \in Seq(Frame) /\ to_server \in Seq(Frame) /\ StreamsOK
      /\ Framed(Pending, Len(Pending))
  BY DEF IInv, StreamsOK
<1>2. /\ Len(call) \in Nat /\ Len(to_server) \in Nat \ {0} /\ Len(todo) \in Nat
      /\ Len(Pending) = Len(call) + Len(to_server) + Len(todo)
      /\ Head(to_server) = to_server[1]
  <2>1. Len(to_server) # 0 /\ Head(to_server) = to_server[1]
    BY <1>1
  <2> QED BY <1>1, <2>1, PendingIs
<1>3. Pending[c] = Head(to_server) /\ c \in 1 .. Len(Pending)
  <2>1. Pending[Len(call) + 1] = to_server[1]
    BY <1>1, <1>2, PendingIs
  <2> QED BY <1>2, <2>1
<1>4. CASE call = << >>
  <2>1. c = 1 /\ c - 1 <= NumArguments(Pending[1].val)
    BY <1>4, FewArguments
  <2>2. Pending[c].type = "text"
    BY <1>1, <1>2, <1>3, <2>1, FirstCall
  <2> QED BY <1>3, <1>4, <2>2 DEF Expected
<1>5. CASE call # << >>
  <2>1. Len(call) > 0 /\ Len(call) <= NumArguments(call[1].val)
    BY <1>1, <1>5 DEF StreamsOK
  <2>2. Pending[1] = call[1]
    BY <1>1, <1>2, <2>1, PendingIs
  <2>3. c - 1 = Len(call) /\ c # 1
    BY <1>2, <2>1
  <2>4. Pending[c].type = Arguments(call[1].val)[Len(call)]
    <3> HIDE DEF c
    <3>1. c - 1 <= NumArguments(Pending[1].val) /\ Len(Pending) \in Nat
      BY <1>2, <2>1, <2>2, <2>3
    <3>2. Pending[c].type = Arguments(Pending[1].val)[c - 1]
      BY <1>1, <1>3, <2>3, <3>1, FirstCall
    <3> QED BY <2>2, <2>3, <3>2
  <2> QED BY <1>3, <1>5, <2>4 DEF Expected
<1> QED BY <1>4, <1>5

LEMMA ScriptTakes ==
    ASSUME IInv, to_client # << >>, client \in {"status", "column"}
    PROVE  Head(to_client).type = Awaited
<1>1. PICK n \in 0 .. NumRows[Select.sql] : Served(Select, n)
  BY DEF IInv, Serving
<1>2. CASE client = "status"
  <2>1. to_client = <<Number(1)>> \/ to_client = <<Number(0)>>
    BY <1>1, <1>2 DEF Served, AwaitsStatus, Opens, Binds, Steps, GotRow, GotEnd
  <2> QED BY <1>2, <2>1 DEF Number, Awaited
<1>3. CASE client = "column"
  <2>1. PICK c \in 1 .. Len(Select.cols) :
          /\ row = Cells(Select, n + 1, c - 1)
          /\ to_client = <<[type |-> Select.cols[c], val |-> ResultCell(Select, n + 1, c)]>>
    BY <1>1, <1>3 DEF Served, AwaitsColumn
  <2>2. Len(row) + 1 = c
    <3>1. Len(Select.cols) \in Nat
      BY SelectsAre, SelectIs
    <3>2. Len(Cells(Select, n + 1, c - 1)) = c - 1
      BY <3>1 DEF Cells
    <3> QED BY <2>1, <3>1, <3>2
  <2>3. Head(to_client).type = Select.cols[c]
    BY <2>1
  <2> QED BY <1>3, <2>2, <2>3 DEF Awaited
<1> QED BY <1>2, <1>3

(* Neither process ever takes a frame for what it is not: not a number for *)
(* another's width, not an argument for a command (the recv_* functions of *)
(* vis_adapter.cpp and Ipc.select), however the script ends.               *)
THEOREM FramesAreTaken == Spec => []Aligned
<1>1. IInv => Aligned
  BY ServerTakes, ScriptTakes DEF Aligned
<1> QED BY <1>1, Invariant, PTL

(* Whatever a script selects, it is given the rows of that select, with    *)
(* their cells; of a select that failed the rows before the failure        *)
(* (Ipc.select and VisAdapter::listen together).                           *)
THEOREM SelectsAreAnswered == Spec => []SelectGivesRows
<1>1. ASSUME IInv PROVE SelectGivesRows
  <2>1. ASSUME NEW i \in DOMAIN returned
        PROVE  LET s == script[i]
               IN IF i \in errors THEN IsPrefix(returned[i], Lines(s, NumRows[s.sql]))
                  ELSE returned[i] = Lines(s, NumRows[s.sql])
    <3>1. /\ i \in 1 .. Len(returned) /\ returned \in Seq(AllResults)
          /\ script \in Seq(Selects) /\ Len(returned) <= Len(script)
      BY <1>1, VisAdapterAssumption DEF IInv, ReturnedOK
    <3>2. i \in 1 .. Len(script)
      BY <3>1
    <3>3. PICK s \in Selects : script[i] = s
      BY <3>1, <3>2
    <3>4. NumRows[s.sql] \in Nat
      BY SelectIs, VisAdapterAssumption
    <3>5. PICK n \in 0 .. NumRows[s.sql] :
            returned[i] = Lines(s, n) /\ (n = NumRows[s.sql] \/ i \in errors)
      BY <1>1, <3>1, <3>3 DEF IInv, ReturnedOK
    <3>6. IsPrefix(Lines(s, n), Lines(s, NumRows[s.sql]))
      BY <3>4 DEF Lines, IsPrefix
    <3> QED BY <3>3, <3>5, <3>6
  <2>2. \A s \in Selects : Lines(s, NumRows[s.sql])
          = [r \in 1 .. NumRows[s.sql] |-> [c \in DOMAIN s.cols |->
                [sql |-> s.sql, bound |-> [k \in DOMAIN s.params |-> s.params[k].val],
                 row |-> r, col |-> c - 1]]]
    <3> SUFFICES ASSUME NEW s \in Selects
                 PROVE  Lines(s, NumRows[s.sql])
                          = [r \in 1 .. NumRows[s.sql] |-> [c \in DOMAIN s.cols |->
                                [sql |-> s.sql, bound |-> [k \in DOMAIN s.params |-> s.params[k].val],
                                 row |-> r, col |-> c - 1]]]
      OBVIOUS
    <3>1. DOMAIN s.cols = 1 .. Len(s.cols)
      BY SelectIs
    <3> QED BY <3>1 DEF Lines, Line, Cells, ResultCell, Values
  <2>3. \A i \in DOMAIN returned : script[i] \in Selects
    <3>1. /\ returned \in Seq(AllResults) /\ script \in Seq(Selects)
          /\ Len(returned) <= Len(script)
      BY <1>1, VisAdapterAssumption DEF IInv, ReturnedOK
    <3> QED BY <3>1
  <2> QED BY <2>1, <2>2, <2>3 DEF SelectGivesRows
<1> QED BY <1>1, Invariant, PTL
=============================================================================
