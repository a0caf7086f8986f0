---------------------------- MODULE Settings_proofs ----------------------------
(***************************************************************************)
(* Proofs about where settings are kept and how they are read: ConfigNumber,*)
(* whose two readers agree; Configuration, whose accepted files are         *)
(* accepted everywhere; ParamStore, whose file is a whole version, and one  *)
(* that was saved or written by hand, at every moment; Dictionary, which    *)
(* behaves as the map that KeyMap describes but for copies without memory;  *)
(* and IspSettings, whose parameters stay in step with the image processor. *)
(***************************************************************************)
EXTENDS ConfigNumber, Configuration, Dictionary, ParamStore, IspSettings, FiniteSetTheorems, TLAPS

-----------------------------------------------------------------------------
(* ConfigNumber.                                                            *)

\* What the check found, and what the program reads, belong to the same text.
NumberInv ==
    /\ text \in Seq(Chars)
    /\ reading \in {"check", "read", "done", "refused"}
    /\ reading \in {"read", "done"} => Accepted(text) /\ checked = Strtol10(text)
    /\ reading = "done" => read = Strtol0(text)
    /\ reading = "refused" => ~Accepted(text)

\* Digits add up from the left: f is the number after each of them.
Counts(f, run, base) ==
    f = [i \in 0..Len(run) |-> IF i = 0 THEN 0 ELSE f[i - 1] * base + Digit(run[i])]

LEMMA NumberOfCounts ==
    ASSUME NEW run, NEW base, NEW known, Counts(known, run, base)
    PROVE  Counts(NumberOf(run, base), run, base)
<1>1. NumberOf(run, base) = CHOOSE f : Counts(f, run, base)
  BY DEF NumberOf, Counts
<1> QED BY <1>1

\* The number that one to three digits make.
LEMMA ShortNumber ==
    ASSUME NEW run \in Seq(Chars), Len(run) \in 1..3, NEW base \in Nat
    PROVE  NumberOf(run, base)[Len(run)] =
             IF Len(run) = 1 THEN Digit(run[1])
             ELSE IF Len(run) = 2 THEN Digit(run[1]) * base + Digit(run[2])
             ELSE (Digit(run[1]) * base + Digit(run[2])) * base + Digit(run[3])
<1> DEFINE one == Digit(run[1])
           two == one * base + Digit(run[2])
           three == two * base + Digit(run[3])
           known == [i \in 0..Len(run) |->
                       IF i = 0 THEN 0 ELSE IF i = 1 THEN one ELSE IF i = 2 THEN two ELSE three]
<1>1. Len(run) \in Nat /\ \A i \in 1..Len(run) : Digit(run[i]) \in Int
  BY DEF Digit
<1>2. one \in Int /\ (Len(run) >= 2 => two \in Int) /\ known[0] = 0
  BY <1>1
<1>3. \A i \in 1..Len(run) : known[i] = known[i - 1] * base + Digit(run[i])
  <2> SUFFICES ASSUME NEW i \in 1..Len(run)
               PROVE  known[i] = known[i - 1] * base + Digit(run[i])
    OBVIOUS
  <2>1. CASE i = 1
    BY <1>1, <1>2, <2>1
  <2>2. CASE i = 2
    BY <2>2
  <2>3. CASE i = 3
    BY <2>3
  <2> QED BY <2>1, <2>2, <2>3
<1>4. known[Len(run)] = IF Len(run) = 1 THEN one ELSE IF Len(run) = 2 THEN two ELSE three
  OBVIOUS
<1>5. DOMAIN known = 0..Len(run) /\ known = [i \in 0..Len(run) |-> known[i]]
  OBVIOUS
<1> HIDE DEF known, one, two, three
<1>6. Counts(known, run, base)
  <2>1. \A i \in 0..Len(run) :
           known[i] = IF i = 0 THEN 0 ELSE known[i - 1] * base + Digit(run[i])
    BY <1>1, <1>2, <1>3
  <2> QED BY <1>5, <2>1, Zenon DEF Counts
<1>7. Counts(NumberOf(run, base), run, base)
  BY <1>6, NumberOfCounts
<1> DEFINE N == NumberOf(run, base)
<1>8. N[0] = 0 /\ \A i \in 1..Len(run) : N[i] = N[i - 1] * base + Digit(run[i])
  <2>1. N = [i \in 0..Len(run) |-> IF i = 0 THEN 0 ELSE N[i - 1] * base + Digit(run[i])]
    BY <1>7 DEF Counts
  <2> HIDE DEF N
  <2> QED BY <1>1, <2>1
<1> HIDE DEF N
<1>9. N[1] = one /\ (Len(run) >= 2 => N[2] = two) /\ (Len(run) >= 3 => N[3] = three)
  <2>1. N[1] = 0 * base + Digit(run[1]) /\ 0 * base = 0
    BY <1>8
  <2>2. N[1] = one
    BY <1>1, <2>1 DEF one
  <2>3. Len(run) >= 2 => N[2] = N[1] * base + Digit(run[2])
    BY <1>8
  <2>4. Len(run) >= 2 => N[2] = two
    BY <2>2, <2>3 DEF two
  <2>5. Len(run) >= 3 => N[3] = N[2] * base + Digit(run[3])
    BY <1>8
  <2> QED BY <2>2, <2>4, <2>5 DEF three
<1>10. N[Len(run)] = IF Len(run) = 1 THEN one ELSE IF Len(run) = 2 THEN two ELSE three
  <2>1. CASE Len(run) = 1
    BY <1>9, <2>1
  <2>2. CASE Len(run) = 2
    BY <1>9, <2>2
  <2>3. CASE Len(run) = 3
    BY <1>9, <2>3
  <2> QED BY <2>1, <2>2, <2>3
<1> QED BY <1>10, Zenon DEF N, one, two, three

\* A text of digits is a run from its beginning to its end.
LEMMA WholeRun ==
    ASSUME NEW s \in Seq(Chars), NEW base \in Nat, \A i \in 1..Len(s) : Digit(s[i]) < base
    PROVE  Run(s, base) = s
<1> DEFINE P(k) == /\ k \in 0..Len(s)
                   /\ \A i \in 1..k : Digit(s[i]) < base
                   /\ k = Len(s) \/ Digit(s[k + 1]) >= base
           k == CHOOSE m : P(m)
<1>1. Run(s, base) = SubSeq(s, 1, k)
  BY DEF Run
<1>2. Len(s) \in Nat /\ \A i \in 1..Len(s) : Digit(s[i]) \in Int
  BY DEF Digit
<1>3. P(Len(s))
  BY <1>2
<1>4. P(k)
  <2> HIDE DEF P
  <2> QED BY <1>3
<1>5. k = Len(s)
  <2> HIDE DEF k
  <2> QED BY <1>2, <1>4
<1>6. SubSeq(s, 1, Len(s)) = s
  OBVIOUS
<1> HIDE DEF k
<1> QED BY <1>1, <1>5, <1>6

LEMMA UnsignedType ==
    ASSUME NEW s \in Seq(Chars)
    PROVE  /\ Unsigned(s) \in Seq(Chars)
           /\ ~Negative(s) => Unsigned(s) = s
           /\ Negative(s) => Len(s) > 0 /\ s[1] = "-" /\ Unsigned(s) = Tail(s)
  BY DEF Unsigned, Negative

\* An accepted text is read the same by both readers: nothing in it is octal or
\* hexadecimal, but for the number zero, which is zero to every base.
LEMMA ReadersAgree ==
    ASSUME NEW s \in Seq(Chars), Accepted(s)
    PROVE  Strtol0(s) = Strtol10(s) /\ Strtol10(s) \in Low..High
<1> DEFINE u == Unsigned(s)
<1>1. u \in Seq(Chars) /\ u # <<>> /\ ~(Len(u) > 1 /\ u[1] = "0") /\ Strtol10(s) \in Low..High
  BY UnsignedType DEF Accepted, Padded
<1> HIDE DEF u
<1>2. ~Hex(u)
  BY <1>1 DEF Hex
<1>3. CASE u[1] # "0"
  BY <1>1, <1>2, <1>3 DEF Strtol0, Strtol10, u
<1>4. CASE u[1] = "0"
  <2>1. Len(u) = 1
    <3>1. Len(u) \in Nat /\ 1 <= Len(u)
      BY <1>1
    <3>2. Len(u) <= 1
      BY <1>1, <1>4, <3>1
    <3> QED BY <3>1, <3>2
  <2>2. ASSUME NEW base \in {8, 10} PROVE Magnitude(u, base) = 0
    <3>1. Digit(u[1]) = 0
      BY <1>4 DEF Digit
    <3>2. Run(u, base) = u
      BY <1>1, <2>1, <3>1, WholeRun
    <3>3. NumberOf(u, base)[Len(u)] = Digit(u[1])
      <4>1. Len(u) \in 1..3 /\ base \in Nat
        BY <2>1, <2>2
      <4> QED BY <1>1, <2>1, <4>1, ShortNumber
    <3> QED BY <3>1, <3>2, <3>3 DEF Magnitude
  <2>3. Value(u, 8) = Value(u, 10)
    BY <2>2 DEF Value, Overflows
  <2> QED BY <1>1, <1>2, <1>4, <2>3 DEF Strtol0, Strtol10, u
<1> QED BY <1>1, <1>3, <1>4

\* A number that somebody wrote plainly is accepted.
LEMMA PlainAccepted ==
    ASSUME NEW s \in Seq(Chars), NEW num \in Low..High, Written(num, s)
    PROVE  Accepted(s)
<1> DEFINE u == Unsigned(s)
           m == IF num < 0 THEN -num ELSE num
           d == Decimal(num)
<1>1. /\ LongMax \in Int /\ num \in Int /\ num <= LongMax /\ -LongMax < num
  BY ConfigNumberAssumption
<1>2. m \in Nat /\ m < 1000 /\ m <= LongMax
  BY <1>1 DEF Written
<1>3. d = IF m < 10 THEN <<m>> ELSE IF m < 100 THEN <<m \div 10, m % 10>>
          ELSE <<m \div 100, (m \div 10) % 10, m % 10>>
  BY DEF Decimal
<1> HIDE DEF m, d
<1>4. /\ d \in Seq(0..9) /\ Len(d) \in 1..3 /\ (Len(d) > 1 => d[1] # 0)
      /\ m = IF Len(d) = 1 THEN d[1] ELSE IF Len(d) = 2 THEN d[1] * 10 + d[2]
             ELSE (d[1] * 10 + d[2]) * 10 + d[3]
  <2> DEFINE tens == m \div 10
             hundreds == m \div 100
             second == tens % 10
             last == m % 10
  <2>0. /\ tens \in Nat /\ last \in 0..9 /\ m = tens * 10 + last
        /\ hundreds \in Nat /\ second \in 0..9 /\ tens = hundreds * 10 + second
    BY <1>2
  <2> HIDE DEF tens, hundreds, second, last
  <2>1. CASE m < 10
    <3>1. d = <<m>>
      BY <1>3, <2>1
    <3> QED BY <1>2, <2>1, <3>1
  <2>2. CASE m >= 10 /\ m < 100
    <3>1. d = <<tens, last>>
      BY <1>2, <1>3, <2>2 DEF tens, last
    <3>2. tens \in 1..9
      BY <1>2, <2>0, <2>2
    <3> QED BY <2>0, <3>1, <3>2
  <2>3. CASE m >= 100
    <3>1. d = <<hundreds, second, last>>
      BY <1>2, <1>3, <2>3 DEF hundreds, second, tens, last
    <3>2. hundreds \in 1..9
      BY <1>2, <2>0, <2>3
    <3> QED BY <2>0, <3>1, <3>2
  <2> QED BY <1>2, <2>1, <2>2, <2>3
<1>5. /\ u \in Seq(Chars) /\ Len(u) = Len(d) /\ \A i \in 1..Len(u) : Digit(u[i]) = d[i]
      /\ Negative(s) <=> num < 0
  <2>1. u \in Seq(Chars)
    BY UnsignedType
  <2>2. /\ Negative(s) <=> num < 0
        /\ Len(u) = Len(d) /\ \A i \in DOMAIN u : Digit(u[i]) = d[i]
    BY DEF Written, d
  <2> HIDE DEF u
  <2> QED BY <2>1, <2>2
<1> HIDE DEF u
<1>6. \A i \in 1..Len(u) : Digit(u[i]) < 10 /\ u[i] \in {"0", "1", "8"}
  <2> SUFFICES ASSUME NEW i \in 1..Len(u) PROVE Digit(u[i]) < 10 /\ u[i] \in {"0", "1", "8"}
    OBVIOUS
  <2>1. d[i] \in 0..9
    BY <1>4, <1>5
  <2>2. Digit(u[i]) \in 0..9
    BY <1>5, <2>1
  <2> QED BY <2>2 DEF Digit
<1>7. Run(u, 10) = u
  BY <1>5, <1>6, WholeRun
<1>8. Magnitude(u, 10) = m
  <2>1. NumberOf(u, 10)[Len(u)] =
             IF Len(u) = 1 THEN Digit(u[1])
             ELSE IF Len(u) = 2 THEN Digit(u[1]) * 10 + Digit(u[2])
             ELSE (Digit(u[1]) * 10 + Digit(u[2])) * 10 + Digit(u[3])
    BY <1>4, <1>5, ShortNumber
  <2>2. NumberOf(u, 10)[Len(u)] = m
    BY <1>4, <1>5, <2>1
  <2> QED BY <1>7, <2>2 DEF Magnitude
<1>9. ~Overflows(u, 10) /\ Value(u, 10) = m
  BY <1>1, <1>2, <1>8 DEF Overflows, Value
<1>10. Strtol10(s) = num
  BY <1>1, <1>5, <1>9 DEF Strtol10, u, m
<1>11. ~Padded(s)
  BY <1>4, <1>5 DEF Padded, Digit, u
<1>12. s # <<>> /\ \A i \in DOMAIN s : s[i] \in {"-", "0", "1", "8"}
  <2>1. CASE ~Negative(s)
    BY <1>4, <1>5, <1>6, <2>1, UnsignedType DEF u
  <2>2. CASE Negative(s)
    <3>1. Len(s) > 0 /\ s[1] = "-" /\ u = Tail(s)
      BY <2>2, UnsignedType DEF u
    <3>2. \A i \in 2..Len(s) : s[i] = u[i - 1] /\ i - 1 \in 1..Len(u)
      BY <3>1
    <3>3. ASSUME NEW i \in 1..Len(s) PROVE s[i] \in {"-", "0", "1", "8"}
      <4>1. CASE i = 1
        BY <3>1, <4>1
      <4>2. CASE i # 1
        <5>1. i \in 2..Len(s)
          BY <4>2
        <5> QED BY <1>6, <3>2, <5>1
      <4> QED BY <4>1, <4>2
    <3>4. DOMAIN s = 1..Len(s)
      OBVIOUS
    <3> QED BY <3>1, <3>3, <3>4
  <2> QED BY <2>1, <2>2
<1>13. u # <<>>
  BY <1>4, <1>5
<1> QED BY <1>7, <1>9, <1>10, <1>11, <1>12, <1>13 DEF Accepted, u

LEMMA NumberStarts == NumberInit => NumberInv
<1> SUFFICES ASSUME NEW k \in 0..MaxLength, NEW s \in [1..k -> Chars], NumberInitWith(s)
             PROVE  NumberInv
  BY DEF NumberInit
<1>1. s \in Seq(Chars)
  BY ConfigNumberAssumption
<1> QED BY <1>1 DEF NumberInitWith, NumberInv

LEMMA NumberStep == NumberInv /\ [NumberNext]_numberVars => NumberInv'
  BY DEF NumberInv, NumberNext, Check, Read, numberVars

\* For any range of a key, any length of its text and any width of a long: what
\* config::number() checks is what rk_param_get_int() reads later, and no
\* number of the range is refused.
THEOREM NumbersAreRead == NumberSpec => []NumbersAgree
<1>1. NumberInv => NumbersAgree
  BY ReadersAgree, PlainAccepted
     DEF NumberInv, NumbersAgree, RunsAsChecked, PlainNumbersAccepted
<1> QED BY <1>1, NumberStarts, NumberStep, PTL DEF NumberSpec

-----------------------------------------------------------------------------
(* Configuration.                                                           *)

\* What a start has found out by now: after validation the file is valid, and
\* the route, the endpoints and the frame rates are those it asks for.
ConfigInv ==
    /\ conf \in Configs
    /\ stage \in {"validate", "refused", "publisher", "route", "endpoints", "video", "ready"}
    /\ stage \notin {"validate", "refused"} => Valid
    /\ stage \in {"endpoints", "video", "ready"} /\ conf.failover =>
          route.ports = ProbePorts /\ \A u \in UsedUrls : Url(u).host = route.host
    /\ stage \in {"video", "ready"} => endpoints = {Endpoint(u) : u \in UsedUrls}
    /\ stage = "ready" => \A s \in Streams :
          vi[s] = conf.rate[s].dst.num
                  \div (IF conf.rate[s].dst.den > 1 THEN conf.rate[s].dst.den ELSE 1)

\* One more element makes a set larger by one at most.
LEMMA OneMore ==
    ASSUME NEW S, NEW x, NEW most \in Nat, IsFiniteSet(S), Cardinality(S) <= most
    PROVE  IsFiniteSet(S \cup {x}) /\ Cardinality(S \cup {x}) <= most + 1
<1>1. /\ IsFiniteSet(S \cup {x}) /\ Cardinality(S) \in Nat
      /\ Cardinality(S \cup {x}) = IF x \in S THEN Cardinality(S) ELSE Cardinality(S) + 1
  BY FS_AddElement, FS_CardinalityType
<1> QED BY <1>1

\* Two protocols with two streams each give at most four ports to probe.
LEMMA FourAtMost ==
    ASSUME NEW a, NEW b, NEW c, NEW d
    PROVE  IsFiniteSet({a, b, c, d}) /\ Cardinality({a, b, c, d}) <= 4
<1>1. IsFiniteSet({}) /\ Cardinality({}) <= 0
  BY FS_EmptySet
<1>2. IsFiniteSet({} \cup {a}) /\ Cardinality({} \cup {a}) <= 0 + 1
  BY <1>1, OneMore
<1>3. {} \cup {a} = {a} /\ {a} \cup {b} = {a, b} /\ {a, b} \cup {c} = {a, b, c}
      /\ {a, b, c} \cup {d} = {a, b, c, d}
  OBVIOUS
<1>4. IsFiniteSet({a}) /\ Cardinality({a}) <= 1
  BY <1>2, <1>3
<1>5. IsFiniteSet({a} \cup {b}) /\ Cardinality({a} \cup {b}) <= 1 + 1
  BY <1>4, OneMore
<1>6. IsFiniteSet({a, b}) /\ Cardinality({a, b}) <= 2
  BY <1>3, <1>5
<1>7. IsFiniteSet({a, b} \cup {c}) /\ Cardinality({a, b} \cup {c}) <= 2 + 1
  BY <1>6, OneMore
<1>8. IsFiniteSet({a, b, c}) /\ Cardinality({a, b, c}) <= 3
  BY <1>3, <1>7
<1>9. IsFiniteSet({a, b, c} \cup {d}) /\ Cardinality({a, b, c} \cup {d}) <= 3 + 1
  BY <1>8, OneMore
<1> QED BY <1>3, <1>9

LEMMA PortsEnd == MaxPort \in Nat
  BY DEF MaxPort

\* A stream's URL has a port, or none given.
LEMMA PortOfUrl ==
    ASSUME conf \in Configs, Valid, NEW u \in UsedUrls
    PROVE  Url(u).port \in 0..MaxPort
<1>1. u[1] \in Protocols /\ u[2] \in Streams
  BY ConfigurationAssumption DEF UsedUrls
<1>2. conf.url[u[1]][u[2]].port \in BadPort..MaxPort
  BY <1>1, ConfigurationAssumption
<1>3. Url(u).port # BadPort
  BY DEF Valid, UrlOk
<1> QED BY <1>2, <1>3, PortsEnd DEF Url, BadPort

\* A valid file with failover passes the checks of the network route.
LEMMA ValidRoutes ==
    ASSUME conf \in Configs, Valid, conf.failover
    PROVE  RouteAccepted
<1>1. \A u \in UsedUrls : Url(u).port \in 0..MaxPort
  BY PortOfUrl
<1>2. ProbePorts \subseteq 1..MaxPort
  <2> SUFFICES ASSUME NEW u \in UsedUrls PROVE ProbePort(u) \in 1..MaxPort
    BY DEF ProbePorts
  <2>1. 554 <= MaxPort /\ 1935 <= MaxPort
    BY DEF MaxPort
  <2> QED BY <1>1, <2>1, PortsEnd DEF ProbePort
<1>3. PICK u \in UsedUrls : TRUE
  <2>1. PICK p \in conf.on : TRUE
    BY DEF Valid
  <2>2. <<p, "main">> \in UsedUrls
    BY DEF UsedUrls, Streams
  <2> QED BY <2>2
<1>4. ProbePort(u) \in ProbePorts
  BY DEF ProbePorts
<1>5. Cardinality(ProbePorts) \in 1..4
  <2> DEFINE all == {ProbePort(<<"rtsp", "main">>), ProbePort(<<"rtsp", "ai">>),
                     ProbePort(<<"rtmp", "main">>), ProbePort(<<"rtmp", "ai">>)}
  <2>1. IsFiniteSet(all) /\ Cardinality(all) <= 4
    BY FourAtMost
  <2>2. ProbePorts \subseteq all
    <3> SUFFICES ASSUME NEW w \in UsedUrls PROVE ProbePort(w) \in all
      BY DEF ProbePorts
    <3>1. w \in {<<"rtsp", "main">>, <<"rtsp", "ai">>, <<"rtmp", "main">>, <<"rtmp", "ai">>}
      BY ConfigurationAssumption DEF UsedUrls, Protocols, Streams
    <3> QED BY <3>1
  <2> HIDE DEF all
  <2>3. IsFiniteSet(ProbePorts) /\ Cardinality(ProbePorts) <= Cardinality(all)
    BY <2>1, <2>2, FS_Subset
  <2>4. Cardinality(ProbePorts) # 0
    BY <1>4, <2>3, FS_EmptySet
  <2>5. Cardinality(ProbePorts) \in Nat /\ Cardinality(all) \in Nat
    BY <2>1, <2>3, FS_CardinalityType
  <2> QED BY <2>1, <2>3, <2>4, <2>5
<1> QED BY <1>2, <1>5 DEF RouteAccepted, Valid, OneReceiver

LEMMA ConfigStarts == ConfigInit => ConfigInv
  BY DEF ConfigInit, ConfigInitWith, ConfigInv

\* A valid file passes every later check, and each step does what it asks for.
LEMMA ConfigStep == ConfigInv /\ [ConfigNext]_configVars => ConfigInv'
<1> SUFFICES ASSUME ConfigInv, [ConfigNext]_configVars PROVE ConfigInv'
  OBVIOUS
<1>0. ASSUME UNCHANGED conf PROVE UsedUrls' = UsedUrls /\ Valid' = Valid /\ ProbePorts' = ProbePorts
  BY <1>0 DEF UsedUrls, Valid, Url, UrlOk, UrlsDiffer, OneReceiver, RateOk, CodecsOk, SizesOk,
     ProbePorts, ProbePort
<1>1. CASE Validate
  <2>1. UNCHANGED conf /\ ((stage' = "publisher" /\ Valid) \/ stage' = "refused")
    BY <1>1 DEF Validate
  <2> QED BY <1>0, <2>1 DEF ConfigInv
<1>2. CASE Publisher
  <2>1. stage = "publisher" /\ Valid /\ UNCHANGED conf
    BY <1>2 DEF Publisher, ConfigInv
  <2>2. /\ CodecsOk /\ \A s \in Streams : conf.size[s] % 2 = 0
        /\ conf.on # {} /\ \A u \in UsedUrls : Url(u) # Missing
    <3>1. \A u \in UsedUrls : UrlOk(u)
      BY <2>1 DEF Valid
    <3> QED BY <2>1, <3>1 DEF Valid, SizesOk, UrlOk
  <2>3. stage' = "route"
    BY <1>2, <2>2 DEF Publisher
  <2> QED BY <1>0, <2>1, <2>3 DEF ConfigInv
<1>3. CASE Route
  <2>1. stage = "route" /\ Valid /\ UNCHANGED <<conf, endpoints, vi>> /\ (conf.failover => RouteAccepted)
    BY <1>3, ValidRoutes DEF Route, ConfigInv
  <2>2. stage' = "endpoints"
    BY <1>3, <2>1 DEF Route
  <2>3. ASSUME conf.failover
        PROVE  route'.ports = ProbePorts /\ \A u \in UsedUrls : Url(u).host = route'.host
    <3>1. PICK w \in UsedUrls : route' = [host |-> Url(w).host, ports |-> ProbePorts]
      BY <1>3, <2>1, <2>3 DEF Route
    <3>2. route'.host = Url(w).host /\ route'.ports = ProbePorts
      BY <3>1
    <3> QED BY <2>1, <2>3, <3>2 DEF RouteAccepted
  <2> QED BY <1>0, <2>1, <2>2, <2>3 DEF ConfigInv, Url
<1>4. CASE Endpoints
  <2>1. stage = "endpoints" /\ stage' = "video" /\ Valid /\ UNCHANGED <<conf, route, vi>>
    BY <1>4 DEF Endpoints, ConfigInv
  <2>2. {w \in UsedUrls : Url(w) # Missing} = UsedUrls
    <3>1. \A u \in UsedUrls : UrlOk(u)
      BY <2>1 DEF Valid
    <3>2. \A u \in UsedUrls : Url(u) # Missing
      BY <3>1 DEF UrlOk
    <3> QED BY <3>2
  <2>3. endpoints' = {Endpoint(u) : u \in UsedUrls}
    BY <1>4, <2>2 DEF Endpoints
  <2> QED BY <1>0, <2>1, <2>3 DEF ConfigInv, Url, Endpoint
<1>5. CASE Video
  <2>1. stage = "video" /\ stage' = "ready" /\ Valid /\ UNCHANGED <<conf, route, endpoints>>
    BY <1>5 DEF Video, ConfigInv
  <2>2. \A s \in Streams : vi'[s] = conf.rate[s].dst.num
                  \div (IF conf.rate[s].dst.den > 1 THEN conf.rate[s].dst.den ELSE 1)
    BY <1>5 DEF Video
  <2> QED BY <1>0, <2>1, <2>2 DEF ConfigInv, Url, Endpoint
<1>6. CASE UNCHANGED configVars
  BY <1>0, <1>6 DEF configVars, ConfigInv, Url, Endpoint
<1> QED BY <1>1, <1>2, <1>3, <1>4, <1>5, <1>6 DEF ConfigNext

\* A rate that divides evenly is what whole-number division gives.
LEMMA ExactDivision ==
    ASSUME NEW num \in Nat, NEW d \in Nat \ {0}, NEW top \in Nat,
           num % d = 0, num >= d, num <= top * d
    PROVE  (num \div d) * d = num /\ num \div d \in 1..top
<1> DEFINE q == num \div d
<1>1. q \in Nat /\ num = d * q + (num % d)
  OBVIOUS
<1> HIDE DEF q
<1>2. num = d * q
  BY <1>1
<1>3. q # 0
  BY <1>2
<1>4. q <= top
  <2> SUFFICES ASSUME q >= top + 1 PROVE FALSE
    BY <1>1
  <2>1. d * q >= d * (top + 1)
    BY <1>1
  <2>2. d * (top + 1) = top * d + d
    OBVIOUS
  <2> QED BY <1>2, <2>1, <2>2
<1>5. q * d = num /\ q \in 1..top
  BY <1>1, <1>2, <1>3, <1>4
<1> QED BY <1>5 DEF q

\* What a started program publishes, probes and captures, from the invariant.
LEMMA ConfigMeans == ConfigInv => RulesHonoured
<1> SUFFICES ASSUME ConfigInv PROVE RulesHonoured
  OBVIOUS
<1>1. RefusedEarly
  BY DEF ConfigInv, RefusedEarly
<1> SUFFICES ASSUME stage = "ready" PROVE EveryStreamPublished /\ RouteServesAll /\ RatesExact
  BY <1>1 DEF RulesHonoured, EveryStreamPublished, RouteServesAll, RatesExact
<1>2. /\ Valid /\ endpoints = {Endpoint(u) : u \in UsedUrls}
      /\ UsedUrls \subseteq Protocols \X Streams
  BY ConfigurationAssumption DEF ConfigInv, UsedUrls
<1>3. EveryStreamPublished
  <2>1. {<<e.protocol, e.stream>> : e \in endpoints} = UsedUrls
    <3>1. \A u \in UsedUrls : <<Endpoint(u).protocol, Endpoint(u).stream>> = u
      BY DEF UsedUrls, Endpoint
    <3> QED BY <1>2, <3>1
  <2>2. ASSUME NEW u \in UsedUrls, NEW w \in UsedUrls, Url(u) = Url(w)
        PROVE  Endpoint(u) = Endpoint(w)
    <3>1. Url(u).scheme = u[1] /\ Url(w).scheme = w[1]
      <4>1. UrlOk(u) /\ UrlOk(w)
        BY <1>2 DEF Valid
      <4> QED BY <4>1 DEF UrlOk
    <3>2. u[1] = w[1]
      BY <2>2, <3>1
    <3>3. u[2] = w[2]
      <4>1. u[1] \in conf.on /\ UrlsDiffer(u[1]) /\ {u[2], w[2]} \subseteq {"main", "ai"}
        BY <1>2 DEF Valid, UsedUrls, Streams
      <4> QED BY <2>2, <3>2, <4>1 DEF Url, UrlsDiffer
    <3> QED BY <2>2, <3>2, <3>3 DEF Endpoint
  <2>3. \A e, f \in endpoints : e # f => e.url # f.url
    <3>1. \A u \in UsedUrls : Endpoint(u).url = Url(u)
      BY DEF Endpoint
    <3> QED BY <1>2, <2>2, <3>1
  <2>4. \A e \in endpoints : e.audio <=> e.stream = "main"
    <3>1. \A u \in UsedUrls : Endpoint(u).audio <=> Endpoint(u).stream = "main"
      BY DEF Endpoint
    <3> QED BY <1>2, <3>1
  <2> QED BY <2>1, <2>3, <2>4 DEF EveryStreamPublished
<1>4. RouteServesAll
  <2> SUFFICES ASSUME conf.failover, NEW u \in UsedUrls
               PROVE  Url(u).host = route.host /\ IoPort(Endpoint(u)) \in route.ports
    BY <1>2 DEF RouteServesAll, Endpoint
  <2>1. route.ports = ProbePorts /\ Url(u).host = route.host
    BY DEF ConfigInv
  <2>2. IoPort(Endpoint(u)) = ProbePort(u)
    <3>1. Url(u).port \in 0..MaxPort
      BY <1>2, PortOfUrl DEF ConfigInv
    <3>2. Endpoint(u).url = Url(u) /\ Endpoint(u).protocol = u[1]
      BY DEF Endpoint
    <3>3. Url(u).port # NoPort <=> Url(u).port > 0
      BY <3>1, PortsEnd DEF NoPort
    <3> QED BY <3>2, <3>3 DEF IoPort, ProbePort
  <2> QED BY <2>1, <2>2 DEF ProbePorts
<1>5. RatesExact
  <2> SUFFICES ASSUME NEW s \in Streams
               PROVE  vi[s] * conf.rate[s].dst.den = conf.rate[s].dst.num /\ vi[s] \in 1..conf.isp
    BY DEF RatesExact
  <2> DEFINE num == conf.rate[s].dst.num
             d == conf.rate[s].dst.den
             top == conf.isp
  <2>1. num \in Nat /\ d \in Nat \ {0} /\ top \in Nat
    BY ConfigurationAssumption DEF ConfigInv
  <2>2. num % d = 0 /\ num >= d /\ num <= top * d
    BY <1>2 DEF Valid, RateOk
  <2>3. vi[s] = num \div (IF d > 1 THEN d ELSE 1)
    BY DEF ConfigInv
  <2> HIDE DEF num, d, top
  <2>4. vi[s] = num \div d
    BY <2>1, <2>3
  <2>5. (num \div d) * d = num /\ num \div d \in 1..top
    BY <2>1, <2>2, ExactDivision
  <2> QED BY <2>4, <2>5 DEF num, d, top
<1> QED BY <1>3, <1>4, <1>5

\* For any configuration files: one that config::validate() accepts is accepted
\* by the publisher and the route too, and the streams, the probed ports and the
\* frame rates are those it asks for.
THEOREM RulesAreHonoured == ConfigSpec => []RulesHonoured
<1>1. ConfigInv /\ [ConfigNext]_configVars => ConfigInv'
  BY ConfigStep
<1>2. ConfigInit => ConfigInv
  BY ConfigStarts
<1>3. ConfigInv => RulesHonoured
  BY ConfigMeans
<1> QED BY <1>1, <1>2, <1>3, PTL DEF ConfigSpec

\* Both halves: the check and the later use of a file agree on each number, for
\* any range, length and width of a long, and on each rule, for any files.
THEOREM ConfigurationIsHonoured == NumberSpec /\ ConfigSpec => []ConfigurationHonoured
<1>1. NumbersAgree /\ RulesHonoured => ConfigurationHonoured
  BY DEF ConfigurationHonoured
<1> QED BY <1>1, NumbersAreRead, RulesAreHonoured, PTL

-----------------------------------------------------------------------------
(* ParamStore.                                                              *)

\* How far a save has come: what was asked for stays what the dictionary says,
\* it reaches the temporary file, then the medium, then its place, and a save
\* that has answered 0 leaves nothing for a power cut to undo.
SaveInv ==
    /\ ParamTypeOK /\ ReplacedWhole
    /\ litter <= losses
    /\ save # "idle" => loaded /\ after = Dump(dict) /\ result = "none"
    /\ save \in {"sync", "rename"} => temp = after
    /\ save \in {"rename", "directory"} => synced
    /\ save = "directory" => disk = after
    /\ result = "saved" => disk = after /\ safe = after

\* The program starts with a file that nobody is writing.
LEMMA ParamStarts == ParamInit => SaveInv
<1> SUFFICES ASSUME NEW file, ParamInitWith(file) PROVE SaveInv
  BY DEF ParamInit
<1>1. ParamTypeOK
  <2>1. loaded \in BOOLEAN /\ synced \in BOOLEAN
    BY Zenon DEF ParamInitWith
  <2>2. {litter, losses} \subseteq 0..MaxLosses
    BY ParamAssumption DEF ParamInitWith
  <2> QED BY <2>1, <2>2 DEF ParamInitWith, ParamTypeOK
<1>2. ReplacedWhole
  BY DEF ParamInitWith, ReplacedWhole
<1> QED BY <1>1, <1>2, ParamAssumption DEF ParamInitWith, SaveInv

\* A process that dies, or a device that does, in the middle of a save.
LEMMA LossStep == SaveInv /\ (Killed \/ PowerCut) => SaveInv'
<1> SUFFICES ASSUME SaveInv, Killed \/ PowerCut PROVE SaveInv'
  OBVIOUS
<1>1. Down
  BY DEF Killed, PowerCut
<1>2. /\ litter \in Nat /\ losses \in Nat /\ MaxLosses \in Nat
      /\ litter <= losses /\ losses < MaxLosses
  BY <1>1, ParamAssumption DEF SaveInv, ParamTypeOK, Down
<1>3. /\ losses' = losses + 1 /\ litter' \in {litter, litter + 1}
      /\ loaded' = FALSE /\ dict' = <<>> /\ save' = "idle" /\ synced' = FALSE
      /\ result' \in {result, "failed"} /\ UNCHANGED <<before, after>>
  BY <1>1 DEF Down
<1>4. {litter', losses'} \subseteq 0..MaxLosses /\ litter' <= losses'
  BY <1>2, <1>3
<1>5. ParamTypeOK'
  BY <1>3, <1>4 DEF SaveInv, ParamTypeOK
<1>6. disk' \in {disk, safe} /\ safe' \in {disk', safe}
  BY DEF Killed, PowerCut, SaveInv
<1>7. ReplacedWhole'
  BY <1>3, <1>6 DEF SaveInv, ReplacedWhole
<1>8. result' = "saved" => disk' = after' /\ safe' = after'
  BY <1>3, <1>6 DEF SaveInv
<1> QED BY <1>3, <1>4, <1>5, <1>7, <1>8 DEF SaveInv

\* Every call and every step of a save keeps the invariant.
LEMMA ParamStep == SaveInv /\ [ParamNext]_paramVars => SaveInv'
<1> SUFFICES ASSUME SaveInv, [ParamNext]_paramVars PROVE SaveInv'
  OBVIOUS
<1> USE DEF SaveInv
<1>1. ASSUME NEW file \in Files, Edit(file) PROVE SaveInv'
  BY <1>1 DEF Edit, ParamTypeOK, ReplacedWhole
<1>2. CASE InitParam \/ Deinit \/ Reload \/ \E name \in Names, new \in Texts : SetString(name, new)
  <2>1. /\ UNCHANGED <<disk, safe, losses, saveVars>> /\ save = "idle"
        /\ loaded' \in BOOLEAN /\ (~loaded' => dict' = <<>>)
    <3>1. CASE InitParam
      <4>1. ~Load(disk).ok => Load(disk).dict = <<>>
        BY DEF Load
      <4>2. Load(disk).ok \in BOOLEAN
        BY DEF Load
      <4> QED BY <3>1, <4>1, <4>2 DEF InitParam, ParamTypeOK
    <3>2. CASE ~InitParam
      BY <1>2, <3>2 DEF Deinit, Reload, SetString, ParamTypeOK
    <3> QED BY <3>1, <3>2
  <2> QED BY <2>1 DEF saveVars, ParamTypeOK, ReplacedWhole
<1>3. CASE SaveBegin
  BY <1>3 DEF SaveBegin, ParamTypeOK, ReplacedWhole
<1>4. CASE SaveWrite
  BY <1>4 DEF SaveWrite, ParamTypeOK, ReplacedWhole
<1>5. CASE SaveSync
  BY <1>5 DEF SaveSync, ParamTypeOK, ReplacedWhole
<1>6. CASE SaveRename
  BY <1>6 DEF SaveRename, ParamTypeOK, ReplacedWhole
<1>7. CASE SaveSyncDirectory
  BY <1>7 DEF SaveSyncDirectory, ParamTypeOK, ReplacedWhole
<1>8. CASE SaveFails
  BY <1>8 DEF SaveFails, ParamTypeOK, ReplacedWhole
<1>9. CASE UNCHANGED paramVars
  BY <1>9 DEF paramVars, ParamTypeOK, ReplacedWhole
<1> QED
  BY <1>1, <1>2, <1>3, <1>4, <1>5, <1>6, <1>7, <1>8, <1>9, LossStep DEF ParamNext

\* rk_param_save() replaces the file as a whole: wherever a call fails, the process
\* is killed or the power goes, the file is the one before or the one asked for,
\* the latter if it answered 0, and only a crash leaves a temporary file.
THEOREM SavesAreWhole == ParamSpec => []FileSafe
<1>1. SaveInv => FileSafe
  BY DEF SaveInv, FileSafe, SavedIsSafe, NoLitter
<1> QED BY <1>1, ParamStarts, ParamStep, PTL DEF ParamSpec

\* Induction: a set that has 0 and with each number the next one has them all.
\* Otherwise the numbers up to one that is missing, without those in the set,
\* could all move down by one and lose their largest (the pigeonhole principle).
LEMMA InductionOverSet ==
    ASSUME NEW S, 0 \in S, \A i \in Nat : i \in S => i + 1 \in S
    PROVE  Nat \subseteq S
<1> SUFFICES ASSUME NEW m \in Nat, m \notin S PROVE FALSE
  OBVIOUS
<1> DEFINE B == {k \in 0..m : k \notin S}
           down == [k \in B |-> k - 1]
<1>1. IsFiniteSet(B) /\ m \in B
  <2>1. B \in SUBSET (0..m) /\ 0 \in Int /\ m \in Int
    OBVIOUS
  <2> HIDE DEF B
  <2>0. IsFiniteSet(0..m)
    BY <2>1, FS_Interval
  <2>2. IsFiniteSet(B)
    BY <2>0, <2>1, FS_Subset
  <2> QED BY <2>2 DEF B
<1>2. \A k \in B : k - 1 \in B \ {m}
  <2> TAKE k \in B
  <2>1. k # 0 /\ k \in Nat
    OBVIOUS
  <2>2. k - 1 \in Nat /\ k - 1 \notin S /\ k - 1 < m
    BY <2>1
  <2> QED BY <2>2
<1>3. \A j, k \in B : j - 1 = k - 1 => j = k
  OBVIOUS
<1>4. down \in [B -> B \ {m}]
  BY <1>2
<1>5. \A j, k \in B : down[j] = down[k] => j = k
  BY <1>3
<1> HIDE DEF B, down
<1>6. IsFiniteSet(B \ {m}) /\ Cardinality(B \ {m}) < Cardinality(B)
  <2>1. IsFiniteSet(B \ {m}) /\ Cardinality(B \ {m}) = Cardinality(B) - 1
    BY <1>1, FS_RemoveElement
  <2>2. Cardinality(B) \in Nat
    BY <1>1, FS_CardinalityType
  <2> QED BY <2>1, <2>2
<1>7. \E x, y \in B : x # y /\ down[x] = down[y]
  BY <1>1, <1>4, <1>6, FS_PigeonHole
<1> QED BY <1>5, <1>7

\* Sequences of anything: joining, cutting and flattening them gives sequences.
LEMMA SequenceIs ==
    ASSUME NEW s
    PROVE  IsSequence(s) <=> Len(s) \in Nat /\ s = [i \in 1..Len(s) |-> s[i]]
<1>1. ASSUME IsSequence(s) PROVE Len(s) \in Nat /\ s = [i \in 1..Len(s) |-> s[i]]
  BY <1>1 DEF IsSequence
<1>2. ASSUME Len(s) \in Nat, s = [i \in 1..Len(s) |-> s[i]] PROVE IsSequence(s)
  <2>1. DOMAIN s = 1..Len(s)
    BY <1>2
  <2>2. \A i \in 1..Len(s) : s[i] \in ToSet(s)
    BY <2>1 DEF ToSet
  <2>3. s \in [1..Len(s) -> ToSet(s)]
    BY <1>2, <2>2
  <2> QED BY <1>2, <2>3 DEF IsSequence
<1> QED BY <1>1, <1>2

LEMMA Typed ==
    ASSUME NEW S, NEW s \in Seq(S)
    PROVE  IsSequence(s)
  BY SequenceIs

LEMMA SequenceOver ==
    ASSUME NEW s, NEW t, IsSequence(s), IsSequence(t)
    PROVE  s \in Seq(ToSet(s) \cup ToSet(t)) /\ t \in Seq(ToSet(s) \cup ToSet(t))
  BY DEF IsSequence

LEMMA JoinedSequence ==
    ASSUME NEW s, NEW t, IsSequence(s), IsSequence(t)
    PROVE  IsSequence(s \o t)
<1>1. PICK S : s \in Seq(S) /\ t \in Seq(S)
  BY SequenceOver
<1>2. s \o t \in Seq(S)
  BY <1>1
<1> QED BY <1>2, Typed

LEMMA CutSequence ==
    ASSUME NEW s, IsSequence(s), NEW m \in 0..Len(s)
    PROVE  IsSequence(SubSeq(s, 1, m))
<1>1. SubSeq(s, 1, m) \in Seq(ToSet(s))
  BY DEF IsSequence
<1> QED BY <1>1, Typed

LEMMA AppendedSequence ==
    ASSUME NEW s, IsSequence(s), NEW e
    PROVE  /\ IsSequence(Append(s, e)) /\ DOMAIN s \subseteq DOMAIN Append(s, e)
           /\ \A i \in DOMAIN s : Append(s, e)[i] = s[i]
<1>1. s \in Seq(ToSet(s) \cup {e})
  BY DEF IsSequence
<1>2. Append(s, e) \in Seq(ToSet(s) \cup {e})
  BY <1>1
<1>3. Len(Append(s, e)) = Len(s) + 1 /\ \A i \in 1..Len(s) : Append(s, e)[i] = s[i]
  BY <1>1
<1>4. DOMAIN s = 1..Len(s) /\ DOMAIN Append(s, e) = 1..Len(s) + 1 /\ Len(s) \in Nat
  BY <1>1, <1>2, <1>3
<1>5. IsSequence(Append(s, e))
  BY <1>2, Typed
<1>6. 1..Len(s) \subseteq 1..Len(s) + 1
  BY <1>4
<1> QED BY <1>3, <1>4, <1>5, <1>6, Zenon

\* Joining the sequences that a sequence consists of.
Flattens(f, s) == f = [i \in 1..Len(s) |-> IF i = 1 THEN s[i] ELSE f[i - 1] \o s[i]]

LEMMA FlatExists ==
    ASSUME NEW s, Len(s) \in Nat \ {0}
    PROVE  \E f : Flattens(f, s)
<1> DEFINE Next(t, i) == t \o s[i]
           Upto(f, k) == /\ f = [i \in 1..k + 1 |-> f[i]] /\ f[1] = s[1]
                         /\ \A i \in 2..k + 1 : f[i] = Next(f[i - 1], i)
           S == {k \in Nat : \E f : Upto(f, k)}
<1> HIDE DEF Next
<1>1. 0 \in S
  <2>1. Upto([i \in 1..1 |-> s[1]], 0)
    OBVIOUS
  <2> QED BY <2>1
<1>2. ASSUME NEW k \in Nat, k \in S PROVE k + 1 \in S
  <2>1. PICK f : Upto(f, k)
    BY <1>2
  <2> DEFINE g == [i \in 1..k + 2 |-> IF i = k + 2 THEN Next(f[k + 1], k + 2) ELSE f[i]]
  <2>2. g = [i \in 1..k + 2 |-> g[i]] /\ \A i \in 1..k + 1 : g[i] = f[i]
    OBVIOUS
  <2>3. g[k + 2] = Next(f[k + 1], k + 2) /\ g[1] = s[1] /\ g[k + 1] = f[k + 1]
    BY <2>1
  <2> HIDE DEF g
  <2>4. ASSUME NEW i \in 2..k + 2 PROVE g[i] = Next(g[i - 1], i)
    <3>1. CASE i = k + 2
      <4>1. i - 1 = k + 1
        BY <3>1
      <4> QED BY <2>3, <3>1, <4>1
    <3>2. CASE i # k + 2
      <4>1. i \in 2..k + 1 /\ i - 1 \in 1..k + 1 /\ i \in 1..k + 1
        BY <3>2
      <4>2. g[i] = f[i] /\ g[i - 1] = f[i - 1] /\ f[i] = Next(f[i - 1], i)
        BY <2>1, <2>2, <4>1
      <4> QED BY <4>2
    <3> QED BY <3>1, <3>2
  <2>5. Upto(g, k + 1)
    <3>1. (k + 1) + 1 = k + 2
      OBVIOUS
    <3> QED BY <2>2, <2>3, <2>4, <3>1
  <2> HIDE DEF Upto
  <2> QED BY <2>5
<1> HIDE DEF S
<1>3. Len(s) - 1 \in S
  BY <1>1, <1>2, InductionOverSet
<1>4. PICK f : Upto(f, Len(s) - 1)
  BY <1>3 DEF S
<1>5. (Len(s) - 1) + 1 = Len(s)
  OBVIOUS
<1>6. f = [i \in 1..Len(s) |-> f[i]]
  BY <1>4, <1>5
<1>7. \A i \in 1..Len(s) : f[i] = IF i = 1 THEN s[i] ELSE Next(f[i - 1], i)
  <2>1. f[1] = s[1] /\ \A i \in 2..Len(s) : f[i] = Next(f[i - 1], i)
    BY <1>4, <1>5
  <2> TAKE i \in 1..Len(s)
  <2>2. CASE i = 1
    BY <2>1, <2>2
  <2>3. CASE i # 1
    <3>1. i \in 2..Len(s)
      BY <2>3
    <3> QED BY <2>1, <2>3, <3>1
  <2> QED BY <2>2, <2>3
<1>8. Flattens(f, s)
  BY <1>6, <1>7, Zenon DEF Flattens, Next
<1> QED BY <1>8

\* The parts are joined one after another, and each time a sequence comes of it.
LEMMA FlatParts ==
    ASSUME NEW s, Len(s) \in Nat \ {0}, \A i \in 1..Len(s) : IsSequence(s[i])
    PROVE  \E f : /\ FlattenSeq(s) = f[Len(s)] /\ f[1] = s[1]
                  /\ \A i \in 2..Len(s) : f[i] = f[i - 1] \o s[i]
                  /\ \A i \in 1..Len(s) : IsSequence(f[i])
<1> DEFINE f == CHOOSE g : Flattens(g, s)
<1>1. FlattenSeq(s) = f[Len(s)]
  BY DEF FlattenSeq, Flattens
<1>2. Flattens(f, s)
  BY FlatExists
<1> HIDE DEF f
<1>3. f[1] = s[1] /\ \A i \in 2..Len(s) : f[i] = f[i - 1] \o s[i]
  <2> DEFINE Next(t, i) == t \o s[i]
  <2>1. f = [i \in 1..Len(s) |-> IF i = 1 THEN s[i] ELSE Next(f[i - 1], i)]
    BY <1>2 DEF Flattens
  <2> HIDE DEF Next
  <2>2. f[1] = s[1] /\ \A i \in 2..Len(s) : f[i] = Next(f[i - 1], i)
    BY <2>1
  <2> QED BY <2>2 DEF Next
<1> DEFINE S == {k \in Nat : k + 1 <= Len(s) => IsSequence(f[k + 1])}
<1>4. 0 \in S
  BY <1>3
<1>5. ASSUME NEW k \in Nat, k \in S PROVE k + 1 \in S
  <2> SUFFICES ASSUME (k + 1) + 1 <= Len(s) PROVE IsSequence(f[(k + 1) + 1])
    OBVIOUS
  <2>1. k + 1 <= Len(s) /\ k + 2 \in 2..Len(s) /\ (k + 1) + 1 = k + 2 /\ (k + 2) - 1 = k + 1
    OBVIOUS
  <2>2. IsSequence(f[k + 1]) /\ IsSequence(s[k + 2])
    BY <1>5, <2>1
  <2>3. f[k + 2] = f[k + 1] \o s[k + 2]
    BY <1>3, <2>1
  <2> QED BY <2>1, <2>2, <2>3, JoinedSequence
<1> HIDE DEF S
<1>6. \A k \in Nat : k \in S
  BY <1>4, <1>5, InductionOverSet
<1>7. ASSUME NEW i \in 1..Len(s) PROVE IsSequence(f[i])
  <2>1. i - 1 \in S /\ (i - 1) + 1 = i /\ i <= Len(s)
    BY <1>6
  <2> QED BY <2>1 DEF S
<1> QED BY <1>1, <1>3, <1>7

LEMMA FlatSequence ==
    ASSUME NEW s, IsSequence(s), \A i \in DOMAIN s : IsSequence(s[i])
    PROVE  IsSequence(FlattenSeq(s))
<1>1. Len(s) \in Nat /\ DOMAIN s = 1..Len(s)
  BY SequenceIs
<1>2. CASE Len(s) = 0
  BY <1>2 DEF FlattenSeq
<1>3. CASE Len(s) # 0
  <2>1. Len(s) \in Nat \ {0} /\ Len(s) \in 1..Len(s) /\ \A i \in 1..Len(s) : IsSequence(s[i])
    BY <1>1, <1>3
  <2>2. PICK f : FlattenSeq(s) = f[Len(s)] /\ \A i \in 1..Len(s) : IsSequence(f[i])
    BY <2>1, FlatParts
  <2> QED BY <2>1, <2>2
<1> QED BY <1>2, <1>3

\* A dictionary that an entry was put into is one again.
LEMMA PutSequence ==
    ASSUME NEW d, IsSequence(d), NEW e
    PROVE  IsSequence(Put(d, e))
<1>1. CASE \E i \in DOMAIN d : d[i].name = e.name
  <2> DEFINE p == [i \in DOMAIN d |-> IF d[i].name = e.name THEN e ELSE d[i]]
  <2>1. Put(d, e) = p
    BY <1>1 DEF Put
  <2>2. DOMAIN d = 1..Len(d) /\ Len(d) \in Nat
    BY SequenceIs
  <2>3. p \in [1..Len(d) -> ToSet(d) \cup {e}]
    BY <2>2 DEF ToSet
  <2>4. p \in Seq(ToSet(d) \cup {e})
    BY <2>2, <2>3
  <2> HIDE DEF p
  <2>5. IsSequence(p)
    BY <2>4, Typed
  <2> QED BY <2>1, <2>5
<1>2. CASE ~\E i \in DOMAIN d : d[i].name = e.name
  <2> DEFINE p == Append(d, e)
  <2>1. Put(d, e) = p
    BY <1>2 DEF Put
  <2>2. IsSequence(p)
    BY AppendedSequence
  <2> QED BY <2>1, <2>2
<1> QED BY <1>1, <1>2

\* Each name is there once, also after another entry was put into the dictionary.
OneEach(d) == \A i, j \in DOMAIN d : d[i].name = d[j].name => i = j

LEMMA PutOne ==
    ASSUME NEW d, IsSequence(d), OneEach(d), NEW e
    PROVE  OneEach(Put(d, e)) /\ Entries(Put(d, e)) = {x \in Entries(d) : x.name # e.name} \cup {e}
<1>1. CASE \E i \in DOMAIN d : d[i].name = e.name
  <2> DEFINE p == [i \in DOMAIN d |-> IF d[i].name = e.name THEN e ELSE d[i]]
  <2>1. Put(d, e) = p
    BY <1>1 DEF Put
  <2>2. DOMAIN p = DOMAIN d
    OBVIOUS
  <2>3. \A i \in DOMAIN d : /\ d[i].name = e.name => p[i] = e
                            /\ d[i].name # e.name => p[i] = d[i]
                            /\ p[i].name = d[i].name
    OBVIOUS
  <2> HIDE DEF p
  <2>4. OneEach(p)
    BY <2>2, <2>3 DEF OneEach
  <2>5. Entries(p) = {x \in Entries(d) : x.name # e.name} \cup {e}
    BY <1>1, <2>2, <2>3 DEF Entries
  <2> QED BY <2>1, <2>4, <2>5
<1>2. CASE ~\E i \in DOMAIN d : d[i].name = e.name
  <2> DEFINE p == Append(d, e)
  <2>1. Put(d, e) = p
    BY <1>2 DEF Put
  <2>2. \A i \in DOMAIN d : p[i] = d[i]
    BY AppendedSequence
  <2>3. Len(d) \in Nat /\ DOMAIN d = 1..Len(d) /\ DOMAIN p = 1..Len(d) + 1 /\ p[Len(d) + 1] = e
    <3>1. d \in Seq(ToSet(d) \cup {e})
      BY DEF IsSequence
    <3>2. Len(p) = Len(d) + 1 /\ p[Len(d) + 1] = e /\ p \in Seq(ToSet(d) \cup {e})
      BY <3>1
    <3> HIDE DEF p
    <3> QED BY <3>1, <3>2
  <2> HIDE DEF p
  <2>4. DOMAIN p = DOMAIN d \cup {Len(d) + 1} /\ Len(d) + 1 \notin DOMAIN d
    BY <2>3
  <2>5. OneEach(p)
    BY <1>2, <2>2, <2>3, <2>4 DEF OneEach
  <2>6. Entries(p) = Entries(d) \cup {e}
    BY <2>2, <2>3, <2>4 DEF Entries
  <2>7. \A x \in Entries(d) : x.name # e.name
    BY <1>2 DEF Entries
  <2> QED BY <2>1, <2>5, <2>6, <2>7
<1> QED BY <1>1, <1>2

\* What is read of a file stays a record with a dictionary.
Readable(r) == {"ok", "dict", "section", "waiting"} \subseteq DOMAIN r /\ IsSequence(r.dict) /\ OneEach(r.dict)

LEMMA EmptySequence == IsSequence(<<>>) /\ OneEach(<<>>)
<1>1. <<>> \in Seq({1})
  OBVIOUS
<1>2. IsSequence(<<>>)
  BY <1>1, Typed
<1>3. OneEach(<<>>)
  BY DEF OneEach
<1> QED BY <1>2, <1>3

LEMMA ProcessReadable ==
    ASSUME NEW r, Readable(r), NEW l
    PROVE  Readable(Process(r, l))
<1> DEFINE A == Put(r.dict, SectionEntry(l.name))
           E == Put(r.dict, Entry(r.section \o l.name, ValueOf(l.text)))
           a == [[r EXCEPT !.section = l.name] EXCEPT !.dict = A]
           b == [r EXCEPT !.dict = E]
           c == [r EXCEPT !.ok = FALSE]
<1>1. IsSequence(A) /\ IsSequence(E) /\ OneEach(A) /\ OneEach(E)
  BY PutSequence, PutOne DEF Readable
<1>2. \/ Process(r, l) = [r EXCEPT !.section = l.name, !.dict = A]
      \/ Process(r, l) = b \/ Process(r, l) = c \/ Process(r, l) = r
  <2>1. CASE l.kind = "section"
    BY <2>1 DEF Process
  <2>2. CASE l.kind = "entry"
    BY <2>2 DEF Process
  <2>3. CASE l.kind = "syntax"
    BY <2>3 DEF Process
  <2>4. CASE l.kind \notin {"section", "entry", "syntax"}
    BY <2>4 DEF Process
  <2> QED BY <2>1, <2>2, <2>3, <2>4
<1> HIDE DEF A, E
<1> QED BY <1>1, <1>2 DEF Readable

LEMMA ReadLineReadable ==
    ASSUME NEW r, Readable(r), NEW line
    PROVE  Readable(ReadLine(r, line))
<1> DEFINE l == Joined(r, line)
           w == [l EXCEPT !.text = Front(Strip(@))]
<1>1. \/ ReadLine(r, line) = r
      \/ ReadLine(r, line) = [r EXCEPT !.ok = FALSE]
      \/ ReadLine(r, line) = [r EXCEPT !.waiting = w]
      \/ ReadLine(r, line) = Process([r EXCEPT !.waiting = NoLine], l)
  BY DEF ReadLine
<1> HIDE DEF l, w
<1>2. /\ Readable([r EXCEPT !.ok = FALSE])
      /\ Readable([r EXCEPT !.waiting = w])
      /\ Readable([r EXCEPT !.waiting = NoLine])
  BY DEF Readable
<1>3. Readable(Process([r EXCEPT !.waiting = NoLine], l))
  BY <1>2, ProcessReadable
<1> QED BY <1>1, <1>2, <1>3

\* The lines s are read one after another, f is what is known after each.
Reads(f, r, s) == f = [i \in 0..Len(s) |-> IF i = 0 THEN r ELSE ReadLine(f[i - 1], s[i])]

LEMMA ReadsExists ==
    ASSUME NEW r, NEW s, Len(s) \in Nat
    PROVE  \E f : Reads(f, r, s)
<1> DEFINE Next(q, i) == ReadLine(q, s[i])
           Upto(f, k) == /\ f = [i \in 0..k |-> f[i]] /\ f[0] = r
                         /\ \A i \in 1..k : f[i] = Next(f[i - 1], i)
           S == {k \in Nat : \E f : Upto(f, k)}
<1> HIDE DEF Next
<1>1. 0 \in S
  <2>1. Upto([i \in 0..0 |-> r], 0)
    OBVIOUS
  <2> QED BY <2>1
<1>2. ASSUME NEW k \in Nat, k \in S PROVE k + 1 \in S
  <2>1. PICK f : Upto(f, k)
    BY <1>2
  <2> DEFINE g == [i \in 0..k + 1 |-> IF i = k + 1 THEN Next(f[k], k + 1) ELSE f[i]]
  <2>2. g = [i \in 0..k + 1 |-> g[i]] /\ \A i \in 0..k : g[i] = f[i]
    OBVIOUS
  <2>3. g[k + 1] = Next(f[k], k + 1) /\ g[0] = r /\ g[k] = f[k]
    BY <2>1
  <2> HIDE DEF g
  <2>4. ASSUME NEW i \in 1..k + 1 PROVE g[i] = Next(g[i - 1], i)
    <3>1. CASE i = k + 1
      <4>1. i - 1 = k
        BY <3>1
      <4> QED BY <2>3, <3>1, <4>1
    <3>2. CASE i # k + 1
      <4>1. i \in 1..k /\ i - 1 \in 0..k /\ i \in 0..k
        BY <3>2
      <4>2. g[i] = f[i] /\ g[i - 1] = f[i - 1] /\ f[i] = Next(f[i - 1], i)
        BY <2>1, <2>2, <4>1
      <4> QED BY <4>2
    <3> QED BY <3>1, <3>2
  <2>5. Upto(g, k + 1)
    BY <2>2, <2>3, <2>4
  <2> HIDE DEF Upto
  <2> QED BY <2>5
<1> HIDE DEF S
<1>3. Len(s) \in S
  BY <1>1, <1>2, InductionOverSet
<1>4. PICK f : Upto(f, Len(s))
  BY <1>3 DEF S
<1>5. \A i \in 0..Len(s) : f[i] = IF i = 0 THEN r ELSE Next(f[i - 1], i)
  <2> TAKE i \in 0..Len(s)
  <2>1. CASE i = 0
    BY <1>4, <2>1
  <2>2. CASE i # 0
    <3>1. i \in 1..Len(s)
      BY <2>2
    <3> QED BY <1>4, <2>2, <3>1
  <2> QED BY <2>1, <2>2
<1>6. f = [i \in 0..Len(s) |-> f[i]]
  BY <1>4
<1>7. Reads(f, r, s)
  BY <1>5, <1>6, Zenon DEF Reads, Next
<1> QED BY <1>7

LEMMA LoadedSequence ==
    ASSUME NEW s, IsSequence(s)
    PROVE  IsSequence(Load(s).dict) /\ OneEach(Load(s).dict)
<1>1. Len(s) \in Nat
  BY SequenceIs
<1> DEFINE f == CHOOSE g : Reads(g, Opened, s)
<1>2. Reading(s) = f
  BY DEF Reading, Reads
<1>3. Reads(f, Opened, s)
  BY <1>1, ReadsExists
<1> HIDE DEF f
<1>4. f[0] = Opened /\ \A i \in 1..Len(s) : f[i] = ReadLine(f[i - 1], s[i])
  <2> DEFINE Next(r, i) == ReadLine(r, s[i])
  <2>1. f = [i \in 0..Len(s) |-> IF i = 0 THEN Opened ELSE Next(f[i - 1], i)]
    BY <1>3 DEF Reads
  <2> HIDE DEF Next
  <2>2. f[0] = Opened /\ \A i \in 1..Len(s) : f[i] = Next(f[i - 1], i)
    BY <1>1, <2>1
  <2> QED BY <2>2 DEF Next
<1> DEFINE S == {k \in Nat : k <= Len(s) => Readable(f[k])}
<1>5. 0 \in S
  <2>1. Readable(Opened)
    BY EmptySequence DEF Opened, Readable
  <2> QED BY <1>4, <2>1
<1>6. ASSUME NEW k \in Nat, k \in S PROVE k + 1 \in S
  <2> SUFFICES ASSUME k + 1 <= Len(s) PROVE Readable(f[k + 1])
    OBVIOUS
  <2>1. k <= Len(s) /\ k + 1 \in 1..Len(s) /\ (k + 1) - 1 = k
    BY <1>1
  <2>2. Readable(f[k]) /\ f[k + 1] = ReadLine(f[k], s[k + 1])
    BY <1>4, <1>6, <2>1
  <2> QED BY <2>2, ReadLineReadable
<1> HIDE DEF S
<1>7. Readable(f[Len(s)])
  <2>1. Len(s) \in S
    BY <1>1, <1>5, <1>6, InductionOverSet
  <2> QED BY <1>1, <2>1 DEF S
<1> DEFINE r == f[Len(s)]
<1>8. IsSequence(r.dict) /\ OneEach(r.dict)
  BY <1>7 DEF Readable
<1> HIDE DEF r
<1>9. Load(s) = [ok |-> r.ok /\ r.waiting = NoLine,
                 dict |-> IF r.ok /\ r.waiting = NoLine THEN r.dict ELSE <<>>]
  BY <1>2 DEF Load, r
<1> QED BY <1>8, <1>9, EmptySequence

\* What is written of a dictionary is a sequence of lines.
LEMMA LinesOverSequence ==
    ASSUME NEW d, IsSequence(d), NEW g, g = [i \in DOMAIN d |-> g[i]]
    PROVE  IsSequence(g) /\ DOMAIN g = DOMAIN d
<1>1. Len(d) \in Nat /\ DOMAIN d = 1..Len(d)
  BY SequenceIs
<1>2. g \in Seq({g[i] : i \in 1..Len(d)})
  BY <1>1
<1>3. IsSequence(g)
  BY <1>2, Typed
<1>4. DOMAIN g = DOMAIN d
  OBVIOUS
<1> QED BY <1>3, <1>4

\* f is what the first lines of g make, for each number of slots of d.
Joins(f, d, g) ==
    /\ FlattenSeq(g) = f[Len(d)] /\ f[1] = g[1]
    /\ \A i \in 2..Len(d) : f[i] = f[i - 1] \o g[i]
    /\ \A i \in 1..Len(d) : IsSequence(f[i])

LEMMA PartsJoined ==
    ASSUME NEW d, IsSequence(d), Len(d) # 0, NEW g, g = [i \in DOMAIN d |-> g[i]],
           \A i \in DOMAIN d : IsSequence(g[i])
    PROVE  \E f : Joins(f, d, g)
<1>1. Len(d) \in Nat \ {0} /\ DOMAIN d = 1..Len(d)
  BY SequenceIs
<1>2. IsSequence(g) /\ DOMAIN g = DOMAIN d
  BY LinesOverSequence
<1>3. DOMAIN g = 1..Len(g) /\ Len(g) \in Nat
  BY <1>2, SequenceIs
<1>4. Len(g) = Len(d)
  BY <1>1, <1>2, <1>3
<1>5. \A i \in 1..Len(g) : IsSequence(g[i])
  BY <1>1, <1>4
<1>6. \E f : /\ FlattenSeq(g) = f[Len(g)] /\ f[1] = g[1]
             /\ \A i \in 2..Len(g) : f[i] = f[i - 1] \o g[i]
             /\ \A i \in 1..Len(g) : IsSequence(f[i])
  BY <1>1, <1>4, <1>5, FlatParts
<1> QED BY <1>4, <1>6 DEF Joins

LEMMA OneLine == ASSUME NEW l PROVE IsSequence(<<l>>)
<1>1. <<l>> \in Seq({l})
  OBVIOUS
<1> QED BY <1>1, Typed

LEMMA TwoLines == ASSUME NEW l, NEW m PROVE IsSequence(<<l, m>>)
<1>1. <<l, m>> \in Seq({l, m})
  OBVIOUS
<1> QED BY <1>1, Typed

LEMMA SectionIsDumped ==
    ASSUME NEW d, IsSequence(d), NEW s
    PROVE  IsSequence(DumpSection(d, s))
<1> DEFINE E(i) == IF Len(d[i].name) > 1 /\ d[i].name[1] = s
                   THEN <<DumpEntry(Tail(d[i].name), d[i].val)>> ELSE <<>>
           g == [i \in DOMAIN d |-> E(i)]
           start == <<Blank, Line("section", <<s>>, <<>>)>>
           body == FlattenSeq(g)
<1>1. \A i \in DOMAIN d : IsSequence(E(i))
  BY OneLine, EmptySequence
<1> HIDE DEF E
<1>2. IsSequence(g) /\ DOMAIN g = DOMAIN d
  BY LinesOverSequence
<1>3. \A i \in DOMAIN g : IsSequence(g[i])
  BY <1>1, <1>2
<1> HIDE DEF g
<1>4. IsSequence(body)
  BY <1>2, <1>3, FlatSequence
<1>5. IsSequence(start)
  BY TwoLines
<1>6. DumpSection(d, s) = (start \o body) \o <<Blank>>
  BY Zenon DEF DumpSection, g, E
<1> HIDE DEF start, body
<1>7. IsSequence(start \o body)
  BY <1>4, <1>5, JoinedSequence
<1> QED BY <1>6, <1>7, OneLine, JoinedSequence

LEMMA DumpedSequence ==
    ASSUME NEW d, IsSequence(d)
    PROVE  IsSequence(Dump(d))
<1>1. CASE \A i \in DOMAIN d : ~IsSection(d[i])
  <2> DEFINE g == [i \in DOMAIN d |-> DumpEntry(d[i].name, d[i].val)]
  <2>1. Dump(d) = g
    BY <1>1 DEF Dump
  <2> QED BY <2>1, LinesOverSequence
<1>2. CASE ~\A i \in DOMAIN d : ~IsSection(d[i])
  <2> DEFINE E(i) == IF IsSection(d[i]) THEN DumpSection(d, d[i].name[1]) ELSE <<>>
             g == [i \in DOMAIN d |-> E(i)]
  <2>1. Dump(d) = FlattenSeq(g) \o <<Blank>>
    BY <1>2 DEF Dump
  <2>2. \A i \in DOMAIN d : IsSequence(E(i))
    BY SectionIsDumped, EmptySequence
  <2> HIDE DEF E
  <2>3. IsSequence(g) /\ DOMAIN g = DOMAIN d
    BY LinesOverSequence
  <2>4. \A i \in DOMAIN g : IsSequence(g[i])
    BY <2>2, <2>3
  <2> HIDE DEF g
  <2>5. IsSequence(FlattenSeq(g))
    BY <2>3, <2>4, FlatSequence
  <2> QED BY <2>1, <2>5, OneLine, JoinedSequence
<1> QED BY <1>1, <1>2

\* The file, the temporary file and the dictionary are sequences at all times.
ParamSequences == IsSequence(dict) /\ IsSequence(disk) /\ IsSequence(safe) /\ IsSequence(temp)

LEMMA SequencesInit == ParamInit => ParamSequences
  BY EmptySequence, ParamAssumption DEF ParamInit, ParamInitWith, ParamSequences

LEMMA SequencesStep ==
    ASSUME ParamSequences, [ParamNext]_paramVars
    PROVE  ParamSequences'
<1> USE DEF ParamSequences, saveVars
<1>1. ASSUME NEW file \in Files, Edit(file) PROVE ParamSequences'
  BY <1>1, ParamAssumption DEF Edit
<1>2. CASE InitParam
  BY <1>2, LoadedSequence DEF InitParam
<1>3. CASE Deinit
  BY <1>3, EmptySequence DEF Deinit
<1>4. CASE Reload
  BY <1>4, LoadedSequence DEF Reload
<1>5. ASSUME NEW name \in Names, NEW new \in Texts, SetString(name, new) PROVE ParamSequences'
  <2>1. IsSequence(Put(dict, Entry(name, new)))
    BY PutSequence
  <2> QED BY <1>5, <2>1 DEF SetString
<1>6. CASE SaveBegin
  BY <1>6, EmptySequence DEF SaveBegin
<1>7. CASE SaveWrite
  BY <1>7, DumpedSequence DEF SaveWrite
<1>8. CASE SaveSync \/ SaveRename
  BY <1>8 DEF SaveSync, SaveRename
<1>9. CASE SaveSyncDirectory \/ SaveFails
  BY <1>9, EmptySequence DEF SaveSyncDirectory, SaveFails
<1>10. CASE Killed
  BY <1>10, EmptySequence DEF Killed, Down
<1>11. CASE PowerCut
  <2>1. dict' = <<>> /\ temp' = <<>> /\ safe' = disk'
    BY <1>11 DEF PowerCut, Down
  <2>2. \/ disk' = safe \/ disk' = disk
        \/ \E m \in 0..Len(disk) : disk' = SubSeq(disk, 1, m)
    BY <1>11 DEF PowerCut
  <2>3. \A m \in 0..Len(disk) : IsSequence(SubSeq(disk, 1, m))
    BY CutSequence
  <2>4. IsSequence(disk')
    BY <2>2, <2>3
  <2> QED BY <2>1, <2>4, EmptySequence
<1>12. CASE UNCHANGED paramVars
  BY <1>12 DEF paramVars
<1> QED BY <1>1, <1>2, <1>3, <1>4, <1>5, <1>6, <1>7, <1>8, <1>9, <1>10, <1>11, <1>12 DEF ParamNext

\* What comes of the lines s, read from r on.
Yields(r, s, q) == \E f : Reads(f, r, s) /\ q = f[Len(s)]

LEMMA ReadsAt ==
    ASSUME NEW f, NEW r, NEW s, Len(s) \in Nat, Reads(f, r, s)
    PROVE  f[0] = r /\ \A i \in 1..Len(s) : f[i] = ReadLine(f[i - 1], s[i])
<1> DEFINE Next(q, i) == ReadLine(q, s[i])
<1>1. f = [i \in 0..Len(s) |-> IF i = 0 THEN r ELSE Next(f[i - 1], i)]
  BY DEF Reads
<1> HIDE DEF Next
<1>2. f[0] = r /\ \A i \in 1..Len(s) : f[i] = Next(f[i - 1], i)
  BY <1>1
<1> QED BY <1>2 DEF Next

LEMMA OneOutcome ==
    ASSUME NEW r, NEW s, Len(s) \in Nat, NEW f, NEW g, Reads(f, r, s), Reads(g, r, s)
    PROVE  f[Len(s)] = g[Len(s)]
<1> DEFINE S == {k \in Nat : k <= Len(s) => f[k] = g[k]}
<1>1. f[0] = r /\ \A i \in 1..Len(s) : f[i] = ReadLine(f[i - 1], s[i])
  BY ReadsAt
<1>2. g[0] = r /\ \A i \in 1..Len(s) : g[i] = ReadLine(g[i - 1], s[i])
  BY ReadsAt
<1>3. 0 \in S
  BY <1>1, <1>2
<1>4. ASSUME NEW k \in Nat, k \in S PROVE k + 1 \in S
  <2> SUFFICES ASSUME k + 1 <= Len(s) PROVE f[k + 1] = g[k + 1]
    OBVIOUS
  <2>1. k + 1 \in 1..Len(s) /\ (k + 1) - 1 = k /\ f[k] = g[k]
    BY <1>4
  <2>2. f[k + 1] = ReadLine(f[k], s[k + 1]) /\ g[k + 1] = ReadLine(g[k], s[k + 1])
    BY <1>1, <1>2, <2>1
  <2> QED BY <2>1, <2>2
<1> HIDE DEF S
<1>5. Len(s) \in S
  BY <1>3, <1>4, InductionOverSet
<1> QED BY <1>5 DEF S

LEMMA LoadYields ==
    ASSUME NEW s, IsSequence(s), NEW q, Yields(Opened, s, q)
    PROVE  Reading(s)[Len(s)] = q
<1>1. Len(s) \in Nat
  BY SequenceIs
<1> DEFINE f == CHOOSE g : Reads(g, Opened, s)
<1>2. Reading(s) = f
  BY DEF Reading, Reads
<1>3. Reads(f, Opened, s)
  BY <1>1, ReadsExists
<1> HIDE DEF f
<1>4. PICK g : Reads(g, Opened, s) /\ q = g[Len(s)]
  BY DEF Yields
<1> QED BY <1>1, <1>2, <1>3, <1>4, OneOutcome

LEMMA YieldsNothing ==
    ASSUME NEW r
    PROVE  Yields(r, <<>>, r)
<1>1. PICK f : Reads(f, r, <<>>)
  BY ReadsExists
<1>2. f[0] = r
  BY <1>1, ReadsAt
<1> QED BY <1>1, <1>2 DEF Yields

LEMMA YieldsOne ==
    ASSUME NEW r, NEW l
    PROVE  Yields(r, <<l>>, ReadLine(r, l))
<1>1. PICK f : Reads(f, r, <<l>>)
  BY ReadsExists
<1>2. f[1] = ReadLine(f[0], l) /\ f[0] = r
  BY <1>1, ReadsAt
<1> QED BY <1>1, <1>2 DEF Yields

LEMMA YieldsJoined ==
    ASSUME NEW r, NEW s, NEW t, IsSequence(s), IsSequence(t),
           NEW q, Yields(r, s, q), NEW p, Yields(q, t, p)
    PROVE  Yields(r, s \o t, p)
<1>1. PICK S : s \in Seq(S) /\ t \in Seq(S)
  BY SequenceOver
<1>2. /\ Len(s) \in Nat /\ Len(t) \in Nat /\ Len(s \o t) = Len(s) + Len(t)
      /\ \A i \in 1..Len(s) : (s \o t)[i] = s[i]
      /\ \A i \in 1..Len(t) : (s \o t)[Len(s) + i] = t[i]
  BY <1>1
<1> DEFINE u == s \o t
<1> HIDE DEF u
<1>3. PICK f : Reads(f, r, s) /\ q = f[Len(s)]
  BY DEF Yields
<1>4. PICK g : Reads(g, q, t) /\ p = g[Len(t)]
  BY DEF Yields
<1>5. f[0] = r /\ \A i \in 1..Len(s) : f[i] = ReadLine(f[i - 1], s[i])
  BY <1>2, <1>3, ReadsAt
<1>6. g[0] = q /\ \A i \in 1..Len(t) : g[i] = ReadLine(g[i - 1], t[i])
  BY <1>2, <1>4, ReadsAt
<1> DEFINE h == [i \in 0..Len(u) |-> IF i <= Len(s) THEN f[i] ELSE g[i - Len(s)]]
<1>7. Len(u) = Len(s) + Len(t)
  BY <1>2 DEF u
<1>8. /\ \A i \in 0..Len(s) : h[i] = f[i]
      /\ \A i \in 0..Len(t) : h[Len(s) + i] = g[i]
  BY <1>2, <1>3, <1>6, <1>7
<1>9. h = [i \in 0..Len(u) |-> h[i]]
  OBVIOUS
<1> HIDE DEF h
<1>10. ASSUME NEW i \in 0..Len(u) PROVE h[i] = IF i = 0 THEN r ELSE ReadLine(h[i - 1], u[i])
  <2>1. CASE i = 0
    BY <1>2, <1>5, <1>8, <2>1
  <2>2. CASE i \in 1..Len(s)
    <3>1. i - 1 \in 0..Len(s) /\ i \in 0..Len(s) /\ i # 0
      BY <2>2
    <3>2. h[i] = f[i] /\ h[i - 1] = f[i - 1] /\ u[i] = s[i]
      BY <1>2, <1>8, <2>2, <3>1 DEF u
    <3> QED BY <1>5, <2>2, <3>1, <3>2
  <2>3. CASE i \in Len(s) + 1..Len(s) + Len(t)
    <3> DEFINE j == i - Len(s)
    <3>1. j \in 1..Len(t) /\ j \in 0..Len(t) /\ j - 1 \in 0..Len(t) /\ i = Len(s) + j
          /\ i - 1 = Len(s) + (j - 1) /\ i # 0
      BY <1>2, <2>3
    <3> HIDE DEF j
    <3>2. h[i] = g[j] /\ h[i - 1] = g[j - 1] /\ u[i] = t[j]
      BY <1>2, <1>8, <3>1 DEF u
    <3> QED BY <1>6, <3>1, <3>2
  <2> QED BY <1>2, <1>7, <2>1, <2>2, <2>3
<1>11. Reads(h, r, u)
  BY <1>9, <1>10, Zenon DEF Reads
<1>12. p = h[Len(u)]
  BY <1>2, <1>4, <1>7, <1>8
<1> QED BY <1>11, <1>12 DEF Yields, u

\* A plain value is read as it was written.
LEMMA PlainIsRead ==
    ASSUME NEW v, PlainValue(v)
    PROVE  ValueOf(v) = v /\ Strip(v) = v
<1>1. Len(v) \in Nat /\ DOMAIN v = 1..Len(v) /\ v \in Seq(ToSet(v))
  BY SequenceIs DEF PlainValue, IsSequence
<1>2. Strip(v) = v
  <2> DEFINE ink == {i \in DOMAIN v : v[i] # " "}
  <2>1. CASE v = <<>>
    <3>1. ink = {}
      BY <2>1
    <3> QED BY <2>1, <3>1 DEF Strip
  <2>2. CASE v # <<>>
    <3>0. v[1] # " " /\ v[Len(v)] # " "
      BY <2>2 DEF PlainValue
    <3>1. Len(v) # 0
      BY <1>1, <2>2
    <3>2. 1 \in ink /\ Len(v) \in ink /\ ink \subseteq 1..Len(v)
      <4>1. 1 \in DOMAIN v /\ Len(v) \in DOMAIN v
        BY <1>1, <3>1
      <4>2. \A i \in ink : i \in 1..Len(v)
        BY <1>1
      <4> QED BY <3>0, <4>1, <4>2
    <3> HIDE DEF ink
    <3>3. Min(ink) = 1
      <4>1. \A y \in ink : 1 <= y
        BY <1>1, <3>2
      <4>2. \A x \in ink : (\A y \in ink : x <= y) => x = 1
        BY <1>1, <3>2
      <4> QED BY <3>2, <4>1, <4>2 DEF Min
    <3>4. Max(ink) = Len(v)
      <4>1. \A y \in ink : Len(v) >= y
        BY <1>1, <3>2
      <4>2. \A x \in ink : (\A y \in ink : x >= y) => x = Len(v)
        <5> SUFFICES ASSUME NEW x \in ink, \A y \in ink : x >= y PROVE x = Len(v)
          OBVIOUS
        <5>1. x \in 1..Len(v) /\ x >= Len(v)
          BY <3>2
        <5>2. \A a, b \in Nat : a \in 1..b /\ a >= b => a = b
          OBVIOUS
        <5>3. x \in Nat /\ Len(v) \in Nat
          BY <1>1, <5>1
        <5> QED BY <5>1, <5>2, <5>3, Zenon
      <4> QED BY <3>2, <4>1, <4>2 DEF Max
    <3>5. SubSeq(v, 1, Len(v)) = v
      BY <1>1
    <3>6. Strip(v) = SubSeq(v, Min(ink), Max(ink))
      BY <3>2 DEF Strip, ink
    <3> QED BY <3>3, <3>4, <3>5, <3>6
  <2> QED BY <2>1, <2>2
<1>3. UpTo(v, {";", "#"}) = v
  <2> DEFINE at == {i \in DOMAIN v : v[i] \in {";", "#"}}
  <2>1. at = {}
    BY DEF PlainValue, ToSet
  <2> QED BY <2>1 DEF UpTo
<1>4. ~(Len(v) > 1 /\ v[1] \in Quotes)
  BY DEF PlainValue
<1>5. v \notin {<<q, q>> : q \in Quotes}
  <2> SUFFICES ASSUME NEW q \in Quotes, v = <<q, q>> PROVE FALSE
    OBVIOUS
  <2>1. Len(v) = 2 /\ v[1] = q
    OBVIOUS
  <2> QED BY <1>4, <2>1
<1>6. ValueOf(v) = v
  BY <1>2, <1>3, <1>4, <1>5 DEF ValueOf
<1> QED BY <1>2, <1>6

\* Between two lines that do not continue: q has read the entries E.
Holds(q, E) ==
    /\ {"ok", "dict", "section", "waiting"} \subseteq DOMAIN q
    /\ q.ok = TRUE /\ q.waiting = NoLine
    /\ IsSequence(q.dict) /\ OneEach(q.dict) /\ Entries(q.dict) = E

LEMMA LineRead ==
    ASSUME NEW q, NEW E, Holds(q, E), NEW l, l.kind # "long", ~Continues(l)
    PROVE  \E p : ReadLine(q, l) = Process(p, l) /\ Holds(p, E) /\ p.section = q.section
<1>1. Joined(q, l) = l
  BY DEF Joined, Holds, NoLine, Line
<1>2. ReadLine(q, l) = Process([q EXCEPT !.waiting = NoLine], l)
  BY <1>1 DEF ReadLine, Holds
<1> DEFINE p == [q EXCEPT !.waiting = NoLine]
<1>3. Holds(p, E) /\ p.section = q.section
  BY DEF Holds
<1> QED BY <1>2, <1>3

LEMMA EmptyContinues ==
    ASSUME NEW l, l.text = <<>>
    PROVE  ~Continues(l)
<1>1. Strip(<<>>) = <<>>
  <2>1. {i \in DOMAIN <<>> : <<>>[i] # " "} = {}
    OBVIOUS
  <2> QED BY <2>1 DEF Strip
<1> QED BY <1>1 DEF Continues

LEMMA BlankRead ==
    ASSUME NEW q, NEW E, Holds(q, E)
    PROVE  Holds(ReadLine(q, Blank), E) /\ ReadLine(q, Blank).section = q.section
<1>1. Blank.kind = "blank" /\ Blank.text = <<>>
  BY DEF Blank, Line
<1>2. PICK p : ReadLine(q, Blank) = Process(p, Blank) /\ Holds(p, E) /\ p.section = q.section
  BY <1>1, EmptyContinues, LineRead
<1>3. Process(p, Blank) = p
  BY <1>1 DEF Process
<1> QED BY <1>2, <1>3

LEMMA SectionRead ==
    ASSUME NEW q, NEW E, Holds(q, E), NEW s, NEW l, l = Line("section", <<s>>, <<>>)
    PROVE  /\ Holds(ReadLine(q, l), {x \in E : x.name # <<s>>} \cup {SectionEntry(<<s>>)})
           /\ ReadLine(q, l).section = <<s>>
<1>1. l.kind = "section" /\ l.text = <<>> /\ l.name = <<s>>
  BY DEF Line
<1>2. PICK p : ReadLine(q, l) = Process(p, l) /\ Holds(p, E) /\ p.section = q.section
  BY <1>1, EmptyContinues, LineRead
<1> DEFINE A == Put(p.dict, SectionEntry(<<s>>))
<1>3. Process(p, l) = [p EXCEPT !.section = <<s>>, !.dict = A]
  BY <1>1 DEF Process
<1>4. SectionEntry(<<s>>).name = <<s>>
  BY DEF SectionEntry
<1>5. IsSequence(A) /\ OneEach(A) /\ Entries(A) = {x \in E : x.name # <<s>>} \cup {SectionEntry(<<s>>)}
  <2> DEFINE e == SectionEntry(<<s>>)
  <2> HIDE DEF e
  <2>1. IsSequence(p.dict) /\ OneEach(p.dict) /\ Entries(p.dict) = E
    BY <1>2 DEF Holds
  <2>2. IsSequence(Put(p.dict, e)) /\ OneEach(Put(p.dict, e))
    BY <2>1, PutOne, PutSequence
  <2>3. Entries(Put(p.dict, e)) = {x \in E : x.name # e.name} \cup {e}
    BY <2>1, PutOne
  <2>4. e.name = <<s>>
    BY <1>4 DEF e
  <2> QED BY <2>2, <2>3, <2>4 DEF e
<1> HIDE DEF A
<1> DEFINE B == {x \in E : x.name # <<s>>} \cup {SectionEntry(<<s>>)}
<1> HIDE DEF B
<1>6. Entries(A) = B
  BY <1>5 DEF B
<1>7. Holds([p EXCEPT !.section = <<s>>, !.dict = A], B)
  BY <1>2, <1>5, <1>6 DEF Holds
<1>8. [p EXCEPT !.section = <<s>>, !.dict = A].section = <<s>>
  BY <1>2 DEF Holds
<1> QED BY <1>2, <1>3, <1>7, <1>8 DEF B

LEMMA EntryRead ==
    ASSUME NEW q, NEW E, Holds(q, E), NEW m, NEW v, PlainValue(v), NEW e,
           e = Entry(q.section \o m, v)
    PROVE  LET p == ReadLine(q, DumpEntry(m, v))
           IN  Holds(p, {x \in E : x.name # e.name} \cup {e}) /\ p.section = q.section
<1> DEFINE l == DumpEntry(m, v)
<1>1. l.kind = "entry" /\ l.text = v /\ l.name = m
  <2>1. ~\E i \in DOMAIN v : v[i] = "L"
    BY DEF PlainValue, ToSet
  <2> QED BY <2>1 DEF DumpEntry, Line
<1>2. ~Continues(l)
  <2>1. Strip(v) = v
    BY PlainIsRead
  <2>2. ~(Len(v) > 0 /\ v[Len(v)] = "\\")
    <3>1. v # <<>> => v[Len(v)] \notin {" ", "\\"}
      BY DEF PlainValue
    <3>2. CASE v = <<>>
      BY <3>2
    <3> QED BY <3>1, <3>2
  <2> QED BY <1>1, <2>1, <2>2 DEF Continues, Last
<1> HIDE DEF l
<1>3. PICK p : ReadLine(q, l) = Process(p, l) /\ Holds(p, E) /\ p.section = q.section
  BY <1>1, <1>2, LineRead
<1>4. ValueOf(l.text) = v
  BY <1>1, PlainIsRead
<1>5. Entry(p.section \o l.name, ValueOf(l.text)) = e
  BY <1>1, <1>3, <1>4, Zenon
<1> DEFINE A == Put(p.dict, e)
<1>6. Process(p, l) = [p EXCEPT !.dict = A]
  BY <1>1, <1>5 DEF Process
<1> DEFINE B == {x \in E : x.name # e.name} \cup {e}
<1>7. IsSequence(A) /\ OneEach(A) /\ Entries(A) = B
  BY <1>3, PutOne, PutSequence DEF Holds
<1> HIDE DEF A, B
<1>8. Holds([p EXCEPT !.dict = A], B) /\ [p EXCEPT !.dict = A].section = p.section
  BY <1>3, <1>7 DEF Holds
<1> QED BY <1>3, <1>6, <1>8 DEF B, l

\* What a dictionary holds where dumping it loses nothing.
Lossless(d) ==
    /\ IsSequence(d) /\ OneEach(d)
    /\ \A e \in Entries(d) : Savable(e, Sections(Entries(d)))

LEMMA EntriesApart ==
    ASSUME NEW d, OneEach(d), NEW E, E \subseteq Entries(d), NEW e \in Entries(d)
    PROVE  {x \in E : x.name # e.name} \cup {e} = E \cup {e}
<1>1. \A x \in Entries(d) : x.name = e.name => x = e
  BY DEF OneEach, Entries
<1> QED BY <1>1

LEMMA NameRejoined ==
    ASSUME NEW m, IsSequence(m), Len(m) > 1
    PROVE  <<m[1]>> \o Tail(m) = m
<1>1. m \in Seq(ToSet(m)) /\ Len(m) \in Nat
  BY SequenceIs DEF IsSequence
<1>2. m[1] \in ToSet(m) /\ Len(m) >= 1
  BY <1>1 DEF ToSet
<1>3. Tail(m) \in Seq(ToSet(m)) /\ Len(Tail(m)) = Len(m) - 1
      /\ \A i \in 1..Len(m) - 1 : Tail(m)[i] = m[i + 1]
  BY <1>1, <1>2
<1> DEFINE t == Tail(m)
           u == <<m[1]>> \o t
<1> HIDE DEF t
<1>4. u \in Seq(ToSet(m)) /\ Len(u) = Len(m) /\ u[1] = m[1]
      /\ \A i \in 2..Len(m) : u[i] = t[i - 1]
  BY <1>1, <1>2, <1>3 DEF t
<1> HIDE DEF u
<1>5. ASSUME NEW i \in 1..Len(m) PROVE u[i] = m[i]
  <2>1. CASE i = 1
    BY <1>4, <2>1
  <2>2. CASE i # 1
    <3>1. i \in 2..Len(m) /\ i - 1 \in 1..Len(m) - 1 /\ (i - 1) + 1 = i
      BY <1>1, <2>2
    <3> QED BY <1>3, <1>4, <3>1 DEF t
  <2> QED BY <2>1, <2>2
<1>6. u = m
  BY <1>1, <1>4, <1>5
<1> QED BY <1>6 DEF u, t

\* The lines of one section: i is a slot of the dictionary.
Part(d, s, i) ==
    IF Len(d[i].name) > 1 /\ d[i].name[1] = s
    THEN <<DumpEntry(Tail(d[i].name), d[i].val)>> ELSE <<>>
InSection(d, s, i) == {x \in {d[i]} : Len(x.name) > 1 /\ x.name[1] = s}

LEMMA PartYields ==
    ASSUME NEW d, Lossless(d), NEW s, NEW i \in DOMAIN d,
           NEW q, NEW E, Holds(q, E), E \subseteq Entries(d), q.section = <<s>>
    PROVE  \E p : /\ Yields(q, Part(d, s, i), p) /\ p.section = <<s>>
                  /\ Holds(p, E \cup InSection(d, s, i))
<1> DEFINE e == d[i]
<1>1. e \in Entries(d)
  BY DEF Entries
<1>2. Savable(e, Sections(Entries(d)))
  BY <1>1 DEF Lossless
<1>3. CASE Len(e.name) > 1 /\ e.name[1] = s
  <2>1. e # SectionEntry(<<e.name[1]>>)
    <3>1. ASSUME e = SectionEntry(<<e.name[1]>>) PROVE FALSE
      <4>0. \A a : SectionEntry(a).name = a
        BY DEF SectionEntry
      <4>1. e.name = <<e.name[1]>>
        BY <3>1, <4>0, Zenon
      <4> DEFINE o == <<e.name[1]>>
      <4>2. Len(o) = 1
        OBVIOUS
      <4> HIDE DEF o
      <4>3. Len(e.name) = Len(o)
        BY <4>1, Zenon DEF o
      <4> QED BY <1>3, <4>2, <4>3
    <3> QED BY <3>1
  <2>2. e = Entry(e.name, e.val) /\ PlainValue(e.val) /\ IsSequence(e.name)
    BY <1>2, <2>1 DEF Savable
  <2>3. e = Entry(q.section \o Tail(e.name), e.val)
    <3>1. q.section \o Tail(e.name) = e.name
      BY <1>3, <2>2, NameRejoined
    <3> QED BY <2>2, <3>1, Zenon
  <2> DEFINE l == DumpEntry(Tail(e.name), e.val)
             p == ReadLine(q, l)
  <2>4. Holds(p, {x \in E : x.name # e.name} \cup {e}) /\ p.section = q.section
    BY <2>2, <2>3, EntryRead, Zenon
  <2> HIDE DEF e, l, p
  <2>5. {x \in E : x.name # e.name} \cup {e} = E \cup {e}
    BY <1>1, EntriesApart DEF Lossless
  <2>6. InSection(d, s, i) = {e} /\ Part(d, s, i) = <<l>>
    BY <1>3 DEF InSection, Part, e, l
  <2>7. Yields(q, <<l>>, p)
    BY YieldsOne DEF p
  <2> QED BY <2>4, <2>5, <2>6, <2>7
<1>4. CASE ~(Len(e.name) > 1 /\ e.name[1] = s)
  <2>1. InSection(d, s, i) = {} /\ Part(d, s, i) = <<>>
    BY <1>4 DEF InSection, Part
  <2>2. Yields(q, <<>>, q)
    BY YieldsNothing
  <2>3. E \cup InSection(d, s, i) = E
    BY <2>1
  <2> QED BY <2>1, <2>2, <2>3
<1> QED BY <1>3, <1>4

\* All keys of a section, once its line was read.
OfSection(d, s, k) == {x \in Entries(d) : Len(x.name) > 1 /\ x.name[1] = s
                                          /\ \E i \in 1..k : x = d[i]}

LEMMA KeysYield ==
    ASSUME NEW d, Lossless(d), Len(d) # 0, NEW s,
           NEW q, NEW E, Holds(q, E), E \subseteq Entries(d), q.section = <<s>>
    PROVE  \E p : /\ Yields(q, FlattenSeq([i \in DOMAIN d |-> Part(d, s, i)]), p)
                  /\ Holds(p, E \cup {x \in Entries(d) : Len(x.name) > 1 /\ x.name[1] = s})
<1> DEFINE g == [i \in DOMAIN d |-> Part(d, s, i)]
<1>1. Len(d) \in Nat \ {0} /\ DOMAIN d = 1..Len(d)
  BY SequenceIs DEF Lossless
<1>2. \A i \in DOMAIN d : g[i] = Part(d, s, i) /\ IsSequence(g[i])
  BY OneLine, EmptySequence DEF Part
<1>3. g = [i \in DOMAIN d |-> g[i]]
  OBVIOUS
<1> HIDE DEF g
<1>4. IsSequence(d)
  BY DEF Lossless
<1>0. PICK f : Joins(f, d, g)
  BY <1>2, <1>3, <1>4, PartsJoined, Zenon
<1>5. /\ FlattenSeq(g) = f[Len(d)] /\ f[1] = g[1]
      /\ \A i \in 2..Len(d) : f[i] = f[i - 1] \o g[i]
      /\ \A i \in 1..Len(d) : IsSequence(f[i])
  BY <1>0 DEF Joins
<1> DEFINE Good(k) == \E p : /\ Yields(q, f[k], p) /\ p.section = <<s>>
                             /\ Holds(p, E \cup OfSection(d, s, k))
           S == {k \in Nat : k + 1 <= Len(d) => Good(k + 1)}
<1>6. ASSUME NEW k \in 0..Len(d) - 1
      PROVE  /\ OfSection(d, s, k + 1) = OfSection(d, s, k) \cup InSection(d, s, k + 1)
             /\ OfSection(d, s, k) \subseteq Entries(d) /\ k + 1 \in DOMAIN d
  <2>1. k + 1 \in DOMAIN d /\ 1..k + 1 = (1..k) \cup {k + 1}
    BY <1>1
  <2>2. d[k + 1] \in Entries(d)
    BY <2>1 DEF Entries
  <2> QED BY <2>1, <2>2 DEF OfSection, InSection
<1> HIDE DEF Good
<1>7. 0 \in S
  <2>1. 1 \in DOMAIN d /\ 0 \in 0..Len(d) - 1 /\ 0 + 1 = 1
    BY <1>1
  <2>2. PICK p : /\ Yields(q, Part(d, s, 1), p) /\ p.section = <<s>>
                 /\ Holds(p, E \cup InSection(d, s, 1))
    BY <2>1, PartYields
  <2>3. OfSection(d, s, 0) = {}
    BY DEF OfSection
  <2>4. OfSection(d, s, 1) = OfSection(d, s, 0) \cup InSection(d, s, 1)
    BY <1>6, <2>1, Zenon
  <2>5. f[1] = Part(d, s, 1)
    BY <1>2, <1>5, <2>1
  <2>6. OfSection(d, s, 1) = InSection(d, s, 1)
    BY <2>3, <2>4
  <2>7. Good(1)
    BY <2>2, <2>5, <2>6 DEF Good
  <2> QED BY <2>7
<1>8. ASSUME NEW k \in Nat, k \in S PROVE k + 1 \in S
  <2> SUFFICES ASSUME (k + 1) + 1 <= Len(d) PROVE Good((k + 1) + 1)
    OBVIOUS
  <2>1. k + 1 <= Len(d) /\ k + 1 \in 0..Len(d) - 1 /\ k + 2 \in 2..Len(d)
        /\ (k + 1) + 1 = k + 2 /\ (k + 2) - 1 = k + 1 /\ k + 1 \in 1..Len(d)
    BY <1>1
  <2>2. PICK p : /\ Yields(q, f[k + 1], p) /\ p.section = <<s>>
                 /\ Holds(p, E \cup OfSection(d, s, k + 1))
    <3>1. Good(k + 1)
      BY <1>8, <2>1
    <3> QED BY <3>1 DEF Good
  <2>3. OfSection(d, s, k + 1) \subseteq Entries(d) /\ k + 2 \in DOMAIN d
        /\ OfSection(d, s, k + 2) = OfSection(d, s, k + 1) \cup InSection(d, s, k + 2)
    BY <1>6, <2>1
  <2>4. PICK w : /\ Yields(p, Part(d, s, k + 2), w) /\ w.section = <<s>>
                 /\ Holds(w, (E \cup OfSection(d, s, k + 1)) \cup InSection(d, s, k + 2))
    <3> DEFINE H == E \cup OfSection(d, s, k + 1)
    <3>1. Holds(p, H) /\ H \subseteq Entries(d)
      BY <2>2, <2>3
    <3> HIDE DEF H
    <3>2. \E w : /\ Yields(p, Part(d, s, k + 2), w) /\ w.section = <<s>>
                 /\ Holds(w, H \cup InSection(d, s, k + 2))
      BY <2>2, <2>3, <3>1, PartYields
    <3> QED BY <3>2 DEF H
  <2>5. (E \cup OfSection(d, s, k + 1)) \cup InSection(d, s, k + 2) = E \cup OfSection(d, s, k + 2)
    BY <2>3
  <2>6. Yields(q, f[k + 2], w)
    <3>1. f[k + 2] = f[k + 1] \o g[k + 2] /\ g[k + 2] = Part(d, s, k + 2)
      BY <1>2, <1>5, <2>1, <2>3
    <3>2. IsSequence(f[k + 1]) /\ IsSequence(g[k + 2])
      BY <1>2, <1>5, <2>1, <2>3
    <3>3. Yields(q, f[k + 1] \o g[k + 2], w)
      BY <2>2, <2>4, <3>1, <3>2, YieldsJoined
    <3> QED BY <3>1, <3>3
  <2>7. Good(k + 2)
    BY <2>4, <2>5, <2>6 DEF Good
  <2> QED BY <2>1, <2>7
<1>9. Good(Len(d))
  <2>1. Len(d) - 1 \in Nat /\ (Len(d) - 1) + 1 = Len(d) /\ Len(d) <= Len(d)
    BY <1>1
  <2>2. S = {k \in Nat : k + 1 <= Len(d) => Good(k + 1)}
    OBVIOUS
  <2> HIDE DEF S
  <2>3. Len(d) - 1 \in S
    BY <1>7, <1>8, <2>1, InductionOverSet
  <2> QED BY <2>1, <2>2, <2>3
<1>10. OfSection(d, s, Len(d)) = {x \in Entries(d) : Len(x.name) > 1 /\ x.name[1] = s}
  BY <1>1 DEF OfSection, Entries
<1> QED BY <1>5, <1>9, <1>10 DEF g, Good

\* A section as it is dumped: its line, its keys and an empty line at each end.
LEMMA SectionYields ==
    ASSUME NEW d, Lossless(d), NEW s, SectionEntry(<<s>>) \in Entries(d),
           NEW q, NEW E, Holds(q, E), E \subseteq Entries(d)
    PROVE  \E p : /\ Yields(q, DumpSection(d, s), p)
                  /\ Holds(p, E \cup {x \in Entries(d) : x.name[1] = s})
<1> DEFINE e == SectionEntry(<<s>>)
           l == Line("section", <<s>>, <<>>)
           g == [i \in DOMAIN d |-> Part(d, s, i)]
           a == ReadLine(q, Blank)
           b == ReadLine(a, l)
           H == E \cup {e}
           K == {x \in Entries(d) : Len(x.name) > 1 /\ x.name[1] = s}
<1>1. Holds(a, E)
  BY BlankRead
<1>2. Holds(b, {x \in E : x.name # <<s>>} \cup {e}) /\ b.section = <<s>>
  BY <1>1, SectionRead
<1>3. {x \in E : x.name # <<s>>} \cup {e} = H
  <2>1. e.name = <<s>>
    BY DEF SectionEntry
  <2> HIDE DEF e
  <2>2. {x \in E : x.name # e.name} \cup {e} = E \cup {e}
    BY EntriesApart DEF Lossless, e
  <2> QED BY <2>1, <2>2
<1>4. Yields(q, <<Blank>>, a) /\ Yields(a, <<l>>, b)
  BY YieldsOne
<1>5. H \subseteq Entries(d) /\ Len(d) # 0
  <2>1. PICK i \in DOMAIN d : d[i] = e
    BY DEF Entries
  <2>2. DOMAIN d = 1..Len(d) /\ Len(d) \in Nat
    BY SequenceIs DEF Lossless
  <2> QED BY <2>1, <2>2
<1> HIDE DEF a, b, H, l
<1>6. Yields(q, <<Blank, l>>, b)
  <2>1. <<Blank>> \o <<l>> = <<Blank, l>>
    <3> DEFINE blank == Blank
    <3> HIDE DEF blank
    <3>1. <<blank>> \in Seq({blank, l}) /\ <<l>> \in Seq({blank, l})
      OBVIOUS
    <3> DEFINE u == <<blank>> \o <<l>>
    <3>2. u \in Seq({blank, l}) /\ Len(u) = 2 /\ u[1] = blank /\ u[2] = l
      BY <3>1
    <3> HIDE DEF u
    <3>3. u = <<u[1], u[2]>>
      BY <3>2
    <3>4. u = <<blank, l>>
      BY <3>2, <3>3, Zenon
    <3> QED BY <3>4 DEF blank, u
  <2> QED BY <1>4, <2>1, OneLine, YieldsJoined
<1>7. \E c : Yields(b, FlattenSeq(g), c) /\ Holds(c, H \cup K)
  BY <1>2, <1>3, <1>5, KeysYield
<1>8. IsSequence(FlattenSeq(g))
  <2>1. \A i \in DOMAIN d : IsSequence(Part(d, s, i))
    BY OneLine, EmptySequence DEF Part
  <2>2. IsSequence(g) /\ DOMAIN g = DOMAIN d
    BY LinesOverSequence DEF Lossless
  <2>3. \A i \in DOMAIN g : IsSequence(g[i])
    BY <2>1, <2>2
  <2> HIDE DEF g
  <2> QED BY <2>2, <2>3, FlatSequence
<1>9. DumpSection(d, s) = (<<Blank, l>> \o FlattenSeq(g)) \o <<Blank>>
  BY Zenon DEF DumpSection, Part, l
<1>10. H \cup K = E \cup {x \in Entries(d) : x.name[1] = s}
  <2>1. \A x \in Entries(d) : x.name[1] = s => x = e \/ Len(x.name) > 1
    BY DEF Lossless, Savable
  <2>2. e \in Entries(d) /\ e.name[1] = s
    BY DEF SectionEntry
  <2> QED BY <2>1, <2>2 DEF H
<1> HIDE DEF g, K
<1>11. PICK c : Yields(b, FlattenSeq(g), c) /\ Holds(c, H \cup K)
  BY <1>7
<1> DEFINE p == ReadLine(c, Blank)
<1>12. Holds(p, H \cup K)
  BY <1>11, BlankRead
<1>13. Yields(c, <<Blank>>, p)
  BY YieldsOne
<1> HIDE DEF p
<1>14. Yields(q, <<Blank, l>> \o FlattenSeq(g), c)
  BY <1>6, <1>8, <1>11, TwoLines, YieldsJoined
<1>15. IsSequence(<<Blank, l>> \o FlattenSeq(g))
  BY <1>8, TwoLines, JoinedSequence
<1>16. Yields(q, (<<Blank, l>> \o FlattenSeq(g)) \o <<Blank>>, p)
  BY <1>13, <1>14, <1>15, OneLine, YieldsJoined
<1> QED BY <1>9, <1>10, <1>12, <1>16

\* The lines that slot i of the dictionary adds: a section, or nothing.
Block(d, i) == IF IsSection(d[i]) THEN DumpSection(d, d[i].name[1]) ELSE <<>>
InBlock(d, i) == {x \in Entries(d) : IsSection(d[i]) /\ x.name[1] = d[i].name[1]}
UpToBlock(d, k) == UNION {InBlock(d, i) : i \in 1..k}

LEMMA BlockYields ==
    ASSUME NEW d, Lossless(d), NEW i \in DOMAIN d,
           NEW q, NEW E, Holds(q, E), E \subseteq Entries(d)
    PROVE  \E p : Yields(q, Block(d, i), p) /\ Holds(p, E \cup InBlock(d, i))
<1>1. CASE IsSection(d[i])
  <2> DEFINE s == d[i].name[1]
  <2>1. d[i] \in Entries(d)
    BY DEF Entries
  <2>2. d[i] = SectionEntry(<<s>>)
    <3>1. Savable(d[i], Sections(Entries(d)))
      BY <2>1 DEF Lossless
    <3>2. ~(Len(d[i].name) > 1)
      BY <1>1 DEF IsSection
    <3> QED BY <3>1, <3>2 DEF Savable
  <2>3. Block(d, i) = DumpSection(d, s)
    BY <1>1 DEF Block
  <2>4. InBlock(d, i) = {x \in Entries(d) : x.name[1] = s}
    BY <1>1 DEF InBlock
  <2>5. SectionEntry(<<s>>) \in Entries(d)
    BY <2>1, <2>2
  <2> HIDE DEF s
  <2>6. \E p : /\ Yields(q, DumpSection(d, s), p)
               /\ Holds(p, E \cup {x \in Entries(d) : x.name[1] = s})
    BY <2>5, SectionYields
  <2> QED BY <2>3, <2>4, <2>6
<1>2. CASE ~IsSection(d[i])
  <2>1. Block(d, i) = <<>> /\ InBlock(d, i) = {}
    BY <1>2 DEF Block, InBlock
  <2>2. Yields(q, <<>>, q) /\ E \cup InBlock(d, i) = E
    BY <2>1, YieldsNothing
  <2> QED BY <2>1, <2>2
<1> QED BY <1>1, <1>2

LEMMA BlocksYield ==
    ASSUME NEW d, Lossless(d), Len(d) # 0
    PROVE  \E p : /\ Yields(Opened, FlattenSeq([i \in DOMAIN d |-> Block(d, i)]), p)
                  /\ Holds(p, UpToBlock(d, Len(d)))
<1> DEFINE g == [i \in DOMAIN d |-> Block(d, i)]
<1>1. Len(d) \in Nat \ {0} /\ DOMAIN d = 1..Len(d)
  BY SequenceIs DEF Lossless
<1>2. \A i \in DOMAIN d : g[i] = Block(d, i) /\ IsSequence(g[i])
  BY SectionIsDumped, EmptySequence DEF Block, Lossless
<1>3. g = [i \in DOMAIN d |-> g[i]]
  OBVIOUS
<1> HIDE DEF g
<1>4. IsSequence(d)
  BY DEF Lossless
<1>0. PICK f : Joins(f, d, g)
  BY <1>2, <1>3, <1>4, PartsJoined, Zenon
<1>5. /\ FlattenSeq(g) = f[Len(d)] /\ f[1] = g[1]
      /\ \A i \in 2..Len(d) : f[i] = f[i - 1] \o g[i]
      /\ \A i \in 1..Len(d) : IsSequence(f[i])
  BY <1>0 DEF Joins
<1> DEFINE Good(k) == \E p : Yields(Opened, f[k], p) /\ Holds(p, UpToBlock(d, k))
           S == {k \in Nat : k + 1 <= Len(d) => Good(k + 1)}
<1>6. ASSUME NEW k \in 0..Len(d) - 1
      PROVE  /\ UpToBlock(d, k + 1) = UpToBlock(d, k) \cup InBlock(d, k + 1)
             /\ UpToBlock(d, k) \subseteq Entries(d) /\ k + 1 \in DOMAIN d
  <2>1. k + 1 \in DOMAIN d /\ 1..k + 1 = (1..k) \cup {k + 1}
    BY <1>1
  <2>2. \A i \in DOMAIN d : InBlock(d, i) \subseteq Entries(d)
    BY DEF InBlock
  <2>3. 1..k \subseteq DOMAIN d
    BY <1>1
  <2> QED BY <2>1, <2>2, <2>3 DEF UpToBlock
<1> HIDE DEF Good
<1>7. Holds(Opened, {})
  <2>1. OneEach(<<>>) /\ Entries(<<>>) = {}
    BY DEF OneEach, Entries
  <2> QED BY <2>1, EmptySequence DEF Holds, Opened
<1>8. 0 \in S
  <2>1. 1 \in DOMAIN d /\ 0 \in 0..Len(d) - 1 /\ 0 + 1 = 1
    BY <1>1
  <2>2. PICK p : Yields(Opened, Block(d, 1), p) /\ Holds(p, {} \cup InBlock(d, 1))
    BY <1>7, <2>1, BlockYields
  <2>3. UpToBlock(d, 0) = {}
    BY DEF UpToBlock
  <2>4. UpToBlock(d, 1) = UpToBlock(d, 0) \cup InBlock(d, 1)
    BY <1>6, <2>1, Zenon
  <2>5. f[1] = Block(d, 1)
    BY <1>2, <1>5, <2>1
  <2>6. {} \cup InBlock(d, 1) = UpToBlock(d, 1)
    BY <2>3, <2>4
  <2>7. Good(1)
    BY <2>2, <2>5, <2>6 DEF Good
  <2> QED BY <2>7
<1>9. ASSUME NEW k \in Nat, k \in S PROVE k + 1 \in S
  <2> SUFFICES ASSUME (k + 1) + 1 <= Len(d) PROVE Good((k + 1) + 1)
    OBVIOUS
  <2>1. k + 1 <= Len(d) /\ k + 1 \in 0..Len(d) - 1 /\ k + 2 \in 2..Len(d)
        /\ (k + 1) + 1 = k + 2 /\ (k + 2) - 1 = k + 1 /\ k + 1 \in 1..Len(d)
    BY <1>1
  <2>2. PICK p : Yields(Opened, f[k + 1], p) /\ Holds(p, UpToBlock(d, k + 1))
    <3>1. Good(k + 1)
      BY <1>9, <2>1
    <3> QED BY <3>1 DEF Good
  <2>3. UpToBlock(d, k + 1) \subseteq Entries(d) /\ k + 2 \in DOMAIN d
        /\ UpToBlock(d, k + 2) = UpToBlock(d, k + 1) \cup InBlock(d, k + 2)
    BY <1>6, <2>1
  <2>4. PICK w : /\ Yields(p, Block(d, k + 2), w)
                 /\ Holds(w, UpToBlock(d, k + 1) \cup InBlock(d, k + 2))
    BY <2>2, <2>3, BlockYields
  <2>5. Yields(Opened, f[k + 2], w)
    <3>1. f[k + 2] = f[k + 1] \o g[k + 2] /\ g[k + 2] = Block(d, k + 2)
      BY <1>2, <1>5, <2>1, <2>3
    <3>2. IsSequence(f[k + 1]) /\ IsSequence(g[k + 2])
      BY <1>2, <1>5, <2>1, <2>3
    <3>3. Yields(Opened, f[k + 1] \o g[k + 2], w)
      BY <2>2, <2>4, <3>1, <3>2, YieldsJoined
    <3> QED BY <3>1, <3>3
  <2>6. Good(k + 2)
    BY <2>3, <2>4, <2>5 DEF Good
  <2> QED BY <2>1, <2>6
<1>10. Good(Len(d))
  <2>1. Len(d) - 1 \in Nat /\ (Len(d) - 1) + 1 = Len(d) /\ Len(d) <= Len(d)
    BY <1>1
  <2>2. S = {k \in Nat : k + 1 <= Len(d) => Good(k + 1)}
    OBVIOUS
  <2> HIDE DEF S
  <2>3. Len(d) - 1 \in S
    BY <1>8, <1>9, <2>1, InductionOverSet
  <2> QED BY <2>1, <2>2, <2>3
<1> QED BY <1>5, <1>10 DEF g, Good

\* Loading what was dumped of a dictionary.
LEMMA DumpLoadsAgain ==
    ASSUME NEW d, Lossless(d)
    PROVE  LET r == Load(Dump(d)) IN r.ok /\ Lossless(r.dict) /\ Entries(r.dict) = Entries(d)
<1> SUFFICES \E q : Yields(Opened, Dump(d), q) /\ Holds(q, Entries(d))
  <2>1. PICK q : Yields(Opened, Dump(d), q) /\ Holds(q, Entries(d))
    OBVIOUS
  <2>2. IsSequence(Dump(d))
    BY DumpedSequence DEF Lossless
  <2>3. Reading(Dump(d))[Len(Dump(d))] = q
    BY <2>1, <2>2, LoadYields
  <2> DEFINE whole == q.ok /\ q.waiting = NoLine
  <2>4. Load(Dump(d)) = [ok |-> whole, dict |-> IF whole THEN q.dict ELSE <<>>]
    BY <2>3 DEF Load
  <2>5. whole
    BY <2>1 DEF Holds
  <2> HIDE DEF whole
  <2>6. Load(Dump(d)).ok /\ Load(Dump(d)).dict = q.dict
    BY <2>4, <2>5
  <2>7. IsSequence(q.dict) /\ OneEach(q.dict) /\ Entries(q.dict) = Entries(d)
    BY <2>1 DEF Holds
  <2>8. Lossless(q.dict)
    BY <2>7 DEF Lossless
  <2> QED BY <2>6, <2>7, <2>8
<1>1. DOMAIN d = 1..Len(d) /\ Len(d) \in Nat
  BY SequenceIs DEF Lossless
<1>2. \A x \in Entries(d) : \E i \in DOMAIN d : IsSection(d[i]) /\ x.name[1] = d[i].name[1]
  <2> TAKE x \in Entries(d)
  <2>1. Savable(x, Sections(Entries(d)))
    BY DEF Lossless
  <2>2. PICK e \in Entries(d) : e = SectionEntry(<<e.name[1]>>) /\ e.name[1] = x.name[1]
    BY <2>1 DEF Savable, Sections
  <2>3. PICK i \in DOMAIN d : e = d[i]
    BY DEF Entries
  <2>4. Len(e.name) = 1
    <3>1. e.name = <<e.name[1]>>
      <4>1. \A a : SectionEntry(a).name = a
        BY DEF SectionEntry
      <4> QED BY <2>2, <4>1, Zenon
    <3>2. \A a : Len(<<a>>) = 1
      OBVIOUS
    <3> QED BY <3>1, <3>2, Zenon
  <2> QED BY <2>2, <2>3, <2>4 DEF IsSection
<1>3. CASE \A i \in DOMAIN d : ~IsSection(d[i])
  <2>1. Entries(d) = {}
    BY <1>2, <1>3
  <2>2. DOMAIN d = {}
    BY <2>1 DEF Entries
  <2> DEFINE g == [i \in DOMAIN d |-> DumpEntry(d[i].name, d[i].val)]
  <2>3. Dump(d) = g
    BY <1>3 DEF Dump
  <2>4. g = <<>>
    BY <2>2
  <2>5. Holds(Opened, {})
    <3>1. OneEach(<<>>) /\ Entries(<<>>) = {}
      BY DEF OneEach, Entries
    <3> QED BY <3>1, EmptySequence DEF Holds, Opened
  <2> QED BY <2>1, <2>3, <2>4, <2>5, YieldsNothing
<1>4. CASE ~\A i \in DOMAIN d : ~IsSection(d[i])
  <2> DEFINE g == [i \in DOMAIN d |-> Block(d, i)]
  <2>1. Dump(d) = FlattenSeq(g) \o <<Blank>>
    BY <1>4 DEF Dump, Block
  <2>2. Len(d) # 0
    BY <1>1, <1>4
  <2>3. UpToBlock(d, Len(d)) = Entries(d)
    BY <1>1, <1>2 DEF UpToBlock, InBlock
  <2>4. \E p : Yields(Opened, FlattenSeq(g), p) /\ Holds(p, Entries(d))
    BY <2>2, <2>3, BlocksYield
  <2>5. IsSequence(FlattenSeq(g))
    <3>1. \A i \in DOMAIN d : IsSequence(Block(d, i))
      BY SectionIsDumped, EmptySequence DEF Block, Lossless
    <3>2. IsSequence(g) /\ DOMAIN g = DOMAIN d
      BY LinesOverSequence DEF Lossless
    <3>3. \A i \in DOMAIN g : IsSequence(g[i])
      BY <3>1, <3>2
    <3> HIDE DEF g
    <3> QED BY <3>2, <3>3, FlatSequence
  <2> HIDE DEF g
  <2>6. PICK p : Yields(Opened, FlattenSeq(g), p) /\ Holds(p, Entries(d))
    BY <2>4
  <2>7. Yields(p, <<Blank>>, ReadLine(p, Blank)) /\ Holds(ReadLine(p, Blank), Entries(d))
    BY <2>6, YieldsOne, BlankRead
  <2>8. Yields(Opened, FlattenSeq(g) \o <<Blank>>, ReadLine(p, Blank))
    BY <2>5, <2>6, <2>7, OneLine, YieldsJoined
  <2> QED BY <2>1, <2>7, <2>8
<1> QED BY <1>3, <1>4

\* Where values are plain and keys in sections: what the files give and what was
\* saved can be dumped without loss, and so can the dictionary in memory.
Restorable(lines) == Load(lines).ok => Lossless(Load(lines).dict)
TakesNames(d) == \A name \in Names, new \in Texts : Savable(Entry(name, new), Sections(Entries(d)))
RestorableNamed(lines) == Restorable(lines) /\ (Load(lines).ok => TakesNames(Load(lines).dict))

DumpInv ==
    /\ SaveInv /\ ParamSequences
    /\ loaded => Lossless(dict) /\ TakesNames(dict)
    /\ RestorableNamed(disk) /\ RestorableNamed(safe)
    /\ save # "idle" => RestorableNamed(after)

LEMMA DumpRestorable ==
    ASSUME NEW d, Lossless(d), TakesNames(d)
    PROVE  RestorableNamed(Dump(d))
<1>1. Lossless(Load(Dump(d)).dict) /\ Entries(Load(Dump(d)).dict) = Entries(d)
  BY DumpLoadsAgain
<1>2. TakesNames(Load(Dump(d)).dict)
  BY <1>1, Zenon DEF TakesNames
<1> QED BY <1>1, <1>2 DEF Restorable, RestorableNamed

LEMMA PlainFileRestorable ==
    ASSUME PlainSettings, NEW file \in Files
    PROVE  RestorableNamed(file)
<1> SUFFICES ASSUME Load(file).ok PROVE Lossless(Load(file).dict) /\ TakesNames(Load(file).dict)
  BY DEF Restorable, RestorableNamed
<1> DEFINE d == Load(file).dict
<1>1. IsSequence(file)
  BY ParamAssumption
<1>2. IsSequence(d) /\ OneEach(d)
  BY <1>1, LoadedSequence
<1>3. /\ \A e \in Entries(d) : Savable(e, Sections(Entries(d)))
      /\ \A name \in Names, new \in Texts : Savable(Entry(name, new), Sections(Entries(d)))
  BY Zenon DEF PlainSettings
<1> HIDE DEF d
<1>4. Lossless(d) /\ TakesNames(d)
  BY <1>2, <1>3 DEF Lossless, TakesNames
<1> QED BY <1>4 DEF d

\* Setting a plain value leaves a dictionary that can be dumped.
LEMMA SetLossless ==
    ASSUME NEW d, Lossless(d), TakesNames(d), NEW name \in Names, NEW new \in Texts
    PROVE  LET p == Put(d, Entry(name, new)) IN Lossless(p) /\ TakesNames(p)
<1> DEFINE e == Entry(name, new)
           p == Put(d, e)
<1>1. Savable(e, Sections(Entries(d))) /\ e.name = name
  BY DEF TakesNames, Entry
<1>2. e # SectionEntry(<<e.name[1]>>)
  <2>1. e.null = FALSE /\ \A a : SectionEntry(a).null = TRUE
    BY DEF Entry, SectionEntry
  <2> QED BY <2>1
<1>3. IsSequence(e.name) /\ Len(e.name) > 1
  BY <1>1, <1>2 DEF Savable
<1> HIDE DEF e
<1>4. IsSequence(p) /\ OneEach(p) /\ Entries(p) = {x \in Entries(d) : x.name # e.name} \cup {e}
  BY PutOne, PutSequence DEF Lossless
<1> HIDE DEF p
<1>5. ASSUME NEW x \in Entries(d), x = SectionEntry(<<x.name[1]>>) PROVE x.name # e.name
  <2>1. x.name = <<x.name[1]>>
    <3>1. \A a : SectionEntry(a).name = a
      BY DEF SectionEntry
    <3> QED BY <1>5, <3>1, Zenon
  <2>2. \A a : Len(<<a>>) = 1
    OBVIOUS
  <2>3. Len(x.name) = 1
    BY <2>1, <2>2, Zenon
  <2>4. Len(e.name) # 1
    <3> DEFINE most == Len(e.name)
    <3>1. most \in Nat
      BY <1>3, SequenceIs
    <3>2. most > 1
      BY <1>3
    <3> HIDE DEF most
    <3>3. most # 1
      BY <3>1, <3>2
    <3> QED BY <3>3 DEF most
  <2> QED BY <2>3, <2>4, Zenon
<1>6. Sections(Entries(p)) = Sections(Entries(d))
  <2>1. {x \in Entries(p) : x = SectionEntry(<<x.name[1]>>)} =
        {x \in Entries(d) : x = SectionEntry(<<x.name[1]>>)}
    BY <1>2, <1>4, <1>5
  <2> QED BY <2>1 DEF Sections
<1>7. \A x \in Entries(p) : Savable(x, Sections(Entries(p)))
  BY <1>1, <1>4, <1>6 DEF Lossless
<1>8. Lossless(p)
  BY <1>4, <1>7 DEF Lossless
<1>9. TakesNames(p)
  BY <1>6 DEF TakesNames
<1> QED BY <1>8, <1>9 DEF p, e

LEMMA DumpStarts ==
    ASSUME PlainSettings
    PROVE  ParamInit => DumpInv
  BY ParamStarts, SequencesInit, PlainFileRestorable DEF ParamInit, ParamInitWith, DumpInv

LEMMA DumpStep ==
    ASSUME PlainSettings, DumpInv, [ParamNext]_paramVars
    PROVE  DumpInv'
<1>1. SaveInv' /\ ParamSequences'
  BY ParamStep, SequencesStep DEF DumpInv
<1> DEFINE Memory == loaded => Lossless(dict) /\ TakesNames(dict)
           Stored == RestorableNamed(disk) /\ RestorableNamed(safe)
           Coming == save # "idle" => RestorableNamed(after)
<1> SUFFICES Memory' /\ Stored' /\ Coming'
  BY <1>1 DEF DumpInv
<1>2. Memory /\ Stored /\ Coming /\ SaveInv
  BY DEF DumpInv
<1> HIDE DEF Memory, Stored, Coming
<1> USE DEF saveVars
<1>3. ASSUME NEW file \in Files, Edit(file) PROVE Memory' /\ Stored' /\ Coming'
  BY <1>2, <1>3, PlainFileRestorable DEF Edit, Memory, Stored, Coming
<1>4. CASE InitParam
  BY <1>2, <1>4 DEF InitParam, Memory, Stored, Coming, Restorable, RestorableNamed
<1>5. CASE Deinit
  BY <1>2, <1>5 DEF Deinit, Memory, Stored, Coming
<1>6. CASE Reload
  BY <1>2, <1>6 DEF Reload, Memory, Stored, Coming, Restorable, RestorableNamed
<1>7. ASSUME NEW name \in Names, NEW new \in Texts, SetString(name, new)
      PROVE  Memory' /\ Stored' /\ Coming'
  <2>1. Lossless(dict) /\ TakesNames(dict)
    BY <1>2, <1>7 DEF SetString, Memory
  <2>2. Lossless(Put(dict, Entry(name, new))) /\ TakesNames(Put(dict, Entry(name, new)))
    BY <2>1, SetLossless
  <2> QED BY <1>2, <1>7, <2>2 DEF SetString, Memory, Stored, Coming
<1>8. CASE SaveBegin
  <2>1. Lossless(dict) /\ TakesNames(dict)
    BY <1>2, <1>8 DEF SaveBegin, Memory
  <2>2. RestorableNamed(Dump(dict))
    BY <2>1, DumpRestorable
  <2> QED BY <1>2, <1>8, <2>2 DEF SaveBegin, Memory, Stored, Coming
<1>9. CASE SaveWrite \/ SaveSync
  BY <1>2, <1>9 DEF SaveWrite, SaveSync, Memory, Stored, Coming
<1>10. CASE SaveRename
  BY <1>2, <1>10 DEF SaveRename, SaveInv, Memory, Stored, Coming
<1>11. CASE SaveSyncDirectory
  BY <1>2, <1>11 DEF SaveSyncDirectory, Memory, Stored, Coming
<1>12. CASE SaveFails
  BY <1>2, <1>12 DEF SaveFails, Memory, Stored, Coming
<1>13. CASE Killed
  BY <1>2, <1>13 DEF Killed, Down, Memory, Stored, Coming
<1>14. CASE PowerCut
  <2>1. (disk' = safe \/ disk' = disk) /\ safe' = disk'
    BY <1>2, <1>14 DEF PowerCut, SaveInv
  <2>2. Stored'
    BY <1>2, <2>1 DEF Stored
  <2> QED BY <1>14, <2>2 DEF PowerCut, Down, Memory, Coming
<1>15. CASE UNCHANGED paramVars
  BY <1>2, <1>15 DEF paramVars, Memory, Stored, Coming
<1> QED BY <1>3, <1>4, <1>5, <1>6, <1>7, <1>8, <1>9, <1>10, <1>11, <1>12, <1>13, <1>14, <1>15
        DEF ParamNext

\* iniparser_dump_ini() dumps "a loadable ini file": where the values that files
\* and callers give need no quotes or escapes and every key is in a section, the
\* dictionary in memory can at every moment be saved and loaded without loss, also
\* after saves, reloads, crashes and power cuts.
THEOREM DumpsAreLoadable == PlainSettings => (ParamSpec => []DumpLoads)
<1> SUFFICES ASSUME PlainSettings PROVE ParamSpec => []DumpLoads
  OBVIOUS
<1>1. DumpInv => DumpLoads
  BY DumpLoadsAgain DEF DumpInv, DumpLoads
<1>2. ParamInit => DumpInv
  BY DumpStarts
<1>3. DumpInv /\ [ParamNext]_paramVars => DumpInv'
  BY DumpStep
<1> QED BY <1>1, <1>2, <1>3, PTL DEF ParamSpec

\* What a start that reads this file finds.
Found(file) ==
    IF Load(file).ok THEN Entries(Load(file).dict) \in kept
    ELSE file \in before /\ result # "saved"

\* What is being saved may be found, and what it becomes can be loaded.
StoredInv == DumpInv /\ StartsAsSaved /\ (save # "idle" => Entries(dict) \in kept)

LEMMA StoredStarts ==
    ASSUME PlainSettings
    PROVE  ParamInit => StoredInv
<1> SUFFICES ASSUME ParamInit PROVE StoredInv
  OBVIOUS
<1>1. DumpInv
  BY DumpStarts
<1>2. PICK file \in Files : ParamInitWith(file)
  BY DEF ParamInit
<1>3. StartsAsSaved /\ save = "idle"
  BY <1>2 DEF ParamInitWith, EntriesOf, StartsAsSaved
<1> QED BY <1>1, <1>3 DEF StoredInv

\* The file that a save writes holds what is in memory.
LEMMA SavedIsFound ==
    ASSUME StoredInv, save # "idle", NEW file, file = after, Entries(dict) \in kept'
    PROVE  Load(file).ok /\ Entries(Load(file).dict) \in kept'
<1>1. Lossless(dict) /\ file = Dump(dict)
  BY DEF StoredInv, DumpInv, SaveInv
<1>2. Load(Dump(dict)).ok /\ Entries(Load(Dump(dict)).dict) = Entries(dict)
  BY <1>1, DumpLoadsAgain
<1> QED BY <1>1, <1>2

LEMMA StoredStep ==
    ASSUME PlainSettings, StoredInv, [ParamNext]_paramVars
    PROVE  StoredInv'
<1>1. DumpInv'
  BY DumpStep DEF StoredInv
<1> DEFINE Coming == save # "idle" => Entries(dict) \in kept
<1> SUFFICES StartsAsSaved' /\ Coming'
  BY <1>1 DEF StoredInv
<1>2. StartsAsSaved <=> Found(disk) /\ Found(safe)
  BY DEF StartsAsSaved, Found
<1>3. ASSUME Found(disk)', Found(safe)' PROVE StartsAsSaved'
  BY <1>3 DEF StartsAsSaved, Found
<1>4. Found(disk) /\ Found(safe) /\ Coming /\ SaveInv
  BY <1>2 DEF StoredInv, DumpInv
<1> USE DEF saveVars
\* Calls between saves leave the files and what may be found in them.
<1>5. CASE InitParam \/ Deinit \/ Reload \/ \E name \in Names, new \in Texts : SetString(name, new)
  <2>1. UNCHANGED <<disk, safe, before, kept, result, save>> /\ save = "idle"
    BY <1>4, <1>5 DEF InitParam, Deinit, Reload, SetString, SaveInv, ParamTypeOK
  <2> QED BY <1>3, <1>4, <2>1 DEF Found
<1>6. ASSUME NEW file \in Files, Edit(file) PROVE StartsAsSaved' /\ Coming'
  <2>1. /\ disk' = file /\ safe' = file /\ before' = {file} /\ kept' = {Entries(Load(file).dict)}
        /\ result' = "none" /\ save' = "idle"
    BY <1>6 DEF Edit, EntriesOf
  <2> QED BY <1>3, <2>1 DEF Found
<1>7. CASE SaveBegin
  <2>1. /\ UNCHANGED <<disk, safe, dict>> /\ before' = {disk, safe} /\ result' = "none"
        /\ kept' = (kept \cap (EntriesOf(disk) \cup EntriesOf(safe))) \cup {Entries(dict)}
    BY <1>7 DEF SaveBegin
  <2>2. ASSUME NEW file \in {disk, safe}, Load(file).ok PROVE Entries(Load(file).dict) \in kept'
    BY <1>4, <2>1, <2>2 DEF Found, EntriesOf
  <2> QED BY <1>3, <2>1, <2>2 DEF Found
<1>8. CASE SaveWrite \/ SaveSync
  BY <1>3, <1>4, <1>8 DEF SaveWrite, SaveSync, Found
<1>9. CASE SaveRename
  <2>1. /\ save = "rename" /\ disk' = after /\ UNCHANGED <<safe, before, kept, result, dict>>
    BY <1>4, <1>9 DEF SaveRename, SaveInv
  <2>2. Load(disk').ok /\ Entries(Load(disk').dict) \in kept'
    BY <1>4, <2>1, SavedIsFound
  <2> QED BY <1>3, <1>4, <2>1, <2>2 DEF Found
<1>10. CASE SaveSyncDirectory
  <2>1. /\ save = "directory" /\ disk = after /\ safe' = after /\ disk' = after
        /\ kept' = {Entries(dict)} /\ save' = "idle"
    BY <1>4, <1>10 DEF SaveSyncDirectory, SaveInv
  <2>2. Load(after).ok /\ Entries(Load(after).dict) \in kept'
    BY <2>1, SavedIsFound
  <2> QED BY <1>3, <2>1, <2>2 DEF Found
<1>11. CASE SaveFails
  BY <1>3, <1>4, <1>11 DEF SaveFails, Found
<1>12. CASE Killed \/ PowerCut
  <2>1. /\ UNCHANGED <<before, kept>> /\ result' \in {result, "failed"} /\ save' = "idle"
        /\ disk' \in {disk, safe} /\ safe' \in {disk, safe}
    BY <1>4, <1>12 DEF Killed, PowerCut, Down, SaveInv
  <2> QED BY <1>3, <1>4, <2>1 DEF Found
<1>13. CASE UNCHANGED paramVars
  BY <1>3, <1>4, <1>13 DEF paramVars, Found
<1> QED BY <1>5, <1>6, <1>7, <1>8, <1>9, <1>10, <1>11, <1>12, <1>13 DEF ParamNext

\* rk_param_save() and the next start: where the values that files and callers give
\* need no quotes or escapes and every key is in a section, a start after any
\* failure finds all parameters as they were when a save began, as they were last
\* saved if it answered 0, or as the file was written by hand.
THEOREM StartsWithWhatWasSaved == PlainSettings => (ParamSpec => []StartsAsSaved)
<1> SUFFICES ASSUME PlainSettings PROVE ParamSpec => []StartsAsSaved
  OBVIOUS
<1>1. StoredInv => StartsAsSaved
  BY DEF StoredInv
<1>2. ParamInit => StoredInv
  BY StoredStarts
<1>3. StoredInv /\ [ParamNext]_paramVars => StoredInv'
  BY StoredStep
<1> QED BY <1>1, <1>2, <1>3, PTL DEF ParamSpec

-----------------------------------------------------------------------------
(* Dictionary.                                                              *)

DictInv == DictionaryTypeOK /\ KeysUnique /\ SearchEnds

\* A key leads to its slot when no other slot has it.
LEMMA Located ==
    ASSUME NEW U, NEW K, \A i, j \in U : K[i] = K[j] => i = j, NEW i \in U
    PROVE  (CHOOSE j \in U : K[j] = K[i]) = i
OBVIOUS

\* A scan finds the slot of a key, and only that one.
LEMMA Matched ==
    ASSUME DictInv, NEW k \in Keys
    PROVE  /\ k \notin Contents => Match(k) = {}
           /\ k \in Contents => /\ KeyAt(k) \in Used /\ key[KeyAt(k)] = k
                                /\ Match(k) = {KeyAt(k)} /\ First(Match(k)) = KeyAt(k)
<1>1. CASE k \notin Contents
  BY <1>1 DEF Contents, Match
<1>2. CASE k \in Contents
  <2>1. PICK i \in Used : key[i] = k
    BY <1>2 DEF Contents
  <2>2. KeyAt(k) \in Used /\ key[KeyAt(k)] = k
    BY <2>1 DEF KeyAt
  <2> DEFINE m == KeyAt(k)
  <2> HIDE DEF m
  <2>3. m \in Used /\ key[m] = k
    BY <2>2 DEF m
  <2>4. Match(k) = {m}
    BY <2>3 DEF DictInv, KeysUnique, Match
  <2>5. m <= m
    BY <2>3 DEF Used, Slots, DictInv, DictionaryTypeOK
  <2>6. First(Match(k)) = m
    BY <2>4, <2>5 DEF First
  <2> QED BY <1>2, <2>2, <2>4, <2>6 DEF m
<1> QED BY <1>1, <1>2

\* The map has the values of the slots, also after a step.
LEMMA TableAt ==
    ASSUME DictInv
    PROVE  /\ DOMAIN entries = Contents /\ entries = [k \in Contents |-> entries[k]]
           /\ \A i \in Used : key[i] \in Contents /\ entries[key[i]] = val[i]
<1>1. \A i \in Used : key[i] \in Contents
  BY DEF Contents
<1>2. ASSUME NEW i \in Used PROVE KeyAt(key[i]) = i
  BY Located DEF DictInv, KeysUnique, KeyAt
<1> QED BY <1>1, <1>2 DEF entries

LEMMA NewTable ==
    ASSUME KeysUnique', NEW g, g = [x \in Contents' |-> g[x]],
           \A i \in Used' : g[key'[i]] = val'[i]
    PROVE  entries' = g
<1>1. \A x \in Contents' : KeyAt(x)' \in Used' /\ key'[KeyAt(x)'] = x
  BY DEF Contents, KeyAt
<1>2. entries' = [x \in Contents' |-> val'[KeyAt(x)']]
  BY DEF entries
<1> QED BY <1>1, <1>2

LEMMA SlotsFinite ==
    ASSUME DictInv
    PROVE  /\ Used \subseteq Slots /\ IsFiniteSet(Used) /\ Cardinality(Used) \in Nat
           /\ size \in Nat \ {0} /\ n \in Nat /\ n <= size /\ NULL \notin Keys
<1>1. size \in Nat \ {0} /\ n \in 0..size
  BY DEF DictInv, DictionaryTypeOK
<1>2. IsFiniteSet(Slots)
  BY <1>1, FS_Interval DEF Slots
<1>3. Used \in SUBSET Slots
  BY DEF Used
<1>4. IsFiniteSet(Used) /\ Cardinality(Used) \in Nat
  BY <1>2, <1>3, FS_Subset, FS_CardinalityType
<1> QED BY <1>1, <1>3, <1>4, DictionaryAssumption

\* A table that is new is an empty map.
LEMMA DictionaryStarts == DictionaryInit => DictInv /\ Map!Init
<1> SUFFICES ASSUME DictionaryInit PROVE DictInv /\ Map!Init
  OBVIOUS
<1>1. Used = {} /\ Contents = {}
  BY DEF DictionaryInit, Used, Contents
<1>2. Cardinality(Used) = 0
  BY <1>1, FS_EmptySet
<1>3. SearchEnds /\ KeysUnique
  BY <1>1, <1>2 DEF SearchEnds, KeysUnique, DictionaryInit
<1>4. DictionaryTypeOK
  BY DictionaryAssumption DEF DictionaryInit, DictionaryTypeOK, Slots
<1>5. entries = [k \in {} |-> NULL]
  BY <1>1 DEF entries
<1>6. Map!Init
  BY <1>5 DEF Map!Init, DictionaryInit
<1> QED BY <1>3, <1>4, <1>6 DEF DictInv

\* A new entry takes a slot that was free, in the table as it is or grown: the
\* key is there with its value, or with none, or lost for want of memory.
LEMMA Inserted ==
    ASSUME DictInv, NEW k \in Keys, NEW v \in Vals \cup {NULL}, Match(k) = {},
           NEW room \in Nat, size <= room, n < room,
           NEW K \in [0..room - 1 -> Keys \cup {NULL}],
           NEW V \in [0..room - 1 -> Vals \cup {NULL}],
           NEW H \in [0..room - 1 -> Nat],
           \A i \in Slots : K[i] = key[i] /\ V[i] = val[i] /\ H[i] = hash[i],
           \A i \in 0..room - 1 : i \notin Slots => K[i] = NULL,
           Insert(k, v, room, K, V, H), call' = <<"set", k, v>>
    PROVE  DictInv' /\ (Map!Set(k, v) \/ CopyLost(k, v))
<1>1. k \notin Contents /\ k # NULL
  BY Matched, SlotsFinite
<1>2. PICK i \in 0..room - 1, ck \in {k, NULL}, cv \in {v, NULL} :
         /\ K[i] = NULL
         /\ key' = [K EXCEPT ![i] = ck] /\ val' = [V EXCEPT ![i] = cv]
         /\ hash' = [H EXCEPT ![i] = Hash[k]]
         /\ ck = k \/ "key" \in Failures
         /\ cv = v \/ (cv = NULL /\ "val" \in Failures)
  BY DEF Insert, NextFree, Copies
<1>3. size' = room /\ n' = n + 1 /\ answer' = "ok"
  BY DEF Insert
<1>4. Slots' = 0..room - 1 /\ Slots \subseteq Slots'
  BY <1>3, SlotsFinite DEF Slots
<1>5. i \notin Used
  BY <1>2 DEF Used
<1>6. /\ key'[i] = ck /\ val'[i] = cv /\ hash'[i] = Hash[k]
      /\ \A j \in Used : key'[j] = key[j] /\ val'[j] = val[j] /\ hash'[j] = hash[j]
      /\ \A j \in Slots' : j \notin Used /\ j # i => key'[j] = NULL
  BY <1>2, <1>4, <1>5, SlotsFinite DEF Used
<1>7. Used' = IF ck = NULL THEN Used ELSE Used \cup {i}
  <2> SUFFICES ASSUME NEW j \in Slots' PROVE j \in Used' <=> j \in Used \/ (j = i /\ ck # NULL)
    BY <1>2, <1>4 DEF Used
  <2>1. j \in Used => key[j] # NULL
    BY DEF Used
  <2> QED BY <1>1, <1>5, <1>6, <2>1 DEF Used
<1>8. DictionaryTypeOK'
  <2>1. key' \in [Slots' -> Keys \cup {NULL}] /\ val' \in [Slots' -> Vals \cup {NULL}]
    BY <1>2, <1>4
  <2>2. hash' \in [Slots' -> Nat]
    BY <1>2, <1>4, DictionaryAssumption
  <2>3. size' \in Nat \ {0} /\ n' \in 0..size'
    BY <1>3, SlotsFinite
  <2> QED BY <1>3, <2>1, <2>2, <2>3 DEF DictionaryTypeOK
<1>9. KeysUnique'
  <2>1. \A j \in Used : key[j] # k
    BY <1>1 DEF Contents
  <2>2. \A j, l \in Used : key[j] = key[l] => j = l
    BY DEF DictInv, KeysUnique
  <2>3. \A j \in Used : hash[j] = Hash[key[j]]
    BY DEF DictInv, KeysUnique
  <2>4. CASE ck = NULL
    BY <1>6, <1>7, <2>2, <2>3, <2>4 DEF KeysUnique
  <2>5. CASE ck = k
    <3>1. Used' = Used \cup {i} /\ key'[i] = k
      BY <1>1, <1>6, <1>7, <2>5
    <3>2. \A j, l \in Used' : key'[j] = key'[l] => j = l
      BY <1>6, <2>1, <2>2, <3>1
    <3>3. \A j \in Used' : hash'[j] = Hash[key'[j]]
      BY <1>6, <2>3, <3>1
    <3> QED BY <3>2, <3>3 DEF KeysUnique
  <2> QED BY <2>4, <2>5
<1>10. SearchEnds'
  <2>1. Cardinality(Used') \in {Cardinality(Used), Cardinality(Used) + 1}
    BY <1>5, <1>7, SlotsFinite, FS_AddElement
  <2> QED BY <1>3, <2>1, SlotsFinite DEF DictInv, SearchEnds
<1>11. Map!Set(k, v) \/ CopyLost(k, v)
  <2>1. CASE ck = NULL
    <3>1. Contents' = Contents
      <4>1. Used' = Used
        BY <1>7, <2>1
      <4>2. \A j \in Used : key'[j] = key[j]
        BY <1>6
      <4>3. Contents' = {key'[j] : j \in Used}
        BY <4>1 DEF Contents
      <4>4. {key'[j] : j \in Used} \subseteq Contents
        BY <4>2 DEF Contents
      <4>5. Contents \subseteq {key'[j] : j \in Used}
        BY <4>2 DEF Contents
      <4> QED BY <4>3, <4>4, <4>5
    <3> PICK t : t = entries
      OBVIOUS
    <3>2. t = [x \in Contents' |-> t[x]] /\ \A j \in Used' : t[key'[j]] = val'[j]
      BY <1>6, <1>7, <2>1, <3>1, TableAt
    <3>3. entries' = t
      BY <1>9, <3>2, NewTable
    <3>4. UNCHANGED entries /\ "key" \in Failures
      BY <1>1, <1>2, <2>1, <3>3
    <3> QED BY <1>1, <1>3, <3>4 DEF CopyLost
  <2>2. CASE ck = k
    <3>1. Contents' = Contents \cup {k}
      <4>1. Used' = Used \cup {i} /\ key'[i] = k /\ \A j \in Used : key'[j] = key[j]
        BY <1>1, <1>6, <1>7, <2>2
      <4>2. Contents' \subseteq Contents \cup {k}
        BY <4>1 DEF Contents
      <4>3. Contents \cup {k} \subseteq Contents'
        BY <4>1 DEF Contents
      <4> QED BY <4>2, <4>3
    <3> PICK t : t = [x \in Contents \cup {k} |-> IF x = k THEN cv ELSE entries[x]]
      OBVIOUS
    <3>2. t = [x \in Contents' |-> t[x]]
      BY <3>1
    <3>3. ASSUME NEW j \in Used' PROVE t[key'[j]] = val'[j]
      <4>1. CASE j = i
        BY <1>6, <2>2, <4>1
      <4>2. CASE j # i
        <5>1. j \in Used /\ key'[j] = key[j] /\ val'[j] = val[j]
          BY <1>6, <1>7, <4>2
        <5>2. key[j] \in Contents /\ entries[key[j]] = val[j]
          BY <5>1, TableAt
        <5> QED BY <1>1, <5>1, <5>2
      <4> QED BY <4>1, <4>2
    <3>4. entries' = t
      BY <1>9, <3>2, <3>3, NewTable
    <3>5. entries' = [x \in DOMAIN entries \cup {k} |-> IF x = k THEN cv ELSE entries[x]]
      BY <3>4, TableAt
    <3>6. CASE cv = v
      BY <1>3, <3>5, <3>6 DEF Map!Set
    <3>7. CASE cv = NULL /\ "val" \in Failures
      <4>1. entries' = [x \in Contents \cup {k} |-> IF x = k THEN NULL ELSE entries[x]]
        BY <3>5, <3>7, TableAt
      <4> QED BY <1>3, <3>7, <4>1 DEF CopyLost
    <3> QED BY <1>2, <3>6, <3>7
  <2> QED BY <2>1, <2>2
<1> QED BY <1>8, <1>9, <1>10, <1>11 DEF DictInv

\* A call that changes the answer only.
LEMMA TableStays ==
    ASSUME DictInv, UNCHANGED <<size, n, key, val, hash>>,
           call' \in {"new", "set", "unset", "get"} \X (Keys \cup {NULL}) \X (Vals \cup {NULL}),
           answer' \in {"ok", "failed", "absent", NULL} \cup Vals
    PROVE  DictInv' /\ entries' = entries
<1>1. Slots' = Slots /\ Used' = Used /\ Contents' = Contents
  BY DEF Slots, Used, Contents
<1>2. DictInv'
  BY <1>1 DEF DictInv, DictionaryTypeOK, KeysUnique, SearchEnds
<1>3. entries' = entries
  BY <1>1 DEF entries, KeyAt
<1> QED BY <1>2, <1>3

\* A key that is there gets the value, or none for want of memory.
LEMMA ReplaceStep ==
    ASSUME DictInv, NEW k \in Keys, NEW v \in Vals \cup {NULL},
           Replace(k, v), call' = <<"set", k, v>>
    PROVE  DictInv' /\ (Map!Set(k, v) \/ CopyLost(k, v))
<1> PICK m : m = KeyAt(k)
  OBVIOUS
<1>1. k \in Contents /\ m \in Used /\ key[m] = k /\ First(Match(k)) = m
  BY Matched DEF Replace
<1>2. PICK cv \in {v, NULL} :
         /\ val' = [val EXCEPT ![m] = cv]
         /\ cv = v \/ (cv = NULL /\ "val" \in Failures)
  BY <1>1 DEF Replace, Copies
<1>3. UNCHANGED <<size, n, key, hash>> /\ answer' = "ok"
  BY DEF Replace
<1>4. Slots' = Slots /\ Used' = Used /\ Contents' = Contents
  BY <1>3 DEF Slots, Used, Contents
<1>5. m \in Slots
  BY <1>1 DEF Used
<1>6. DictInv'
  BY <1>2, <1>3, <1>4, <1>5 DEF DictInv, DictionaryTypeOK, KeysUnique, SearchEnds
<1> PICK t : t = [x \in Contents |-> IF x = k THEN cv ELSE entries[x]]
  OBVIOUS
<1>7. t = [x \in Contents' |-> t[x]]
  BY <1>4
<1>8. ASSUME NEW j \in Used' PROVE t[key'[j]] = val'[j]
  <2>1. j \in Used /\ key'[j] = key[j] /\ key[j] \in Contents /\ entries[key[j]] = val[j]
    BY <1>3, <1>4, TableAt
  <2>2. val'[m] = cv /\ (j # m => val'[j] = val[j])
    BY <1>2, <1>5, <2>1 DEF DictInv, DictionaryTypeOK, Used
  <2>3. key[j] = k <=> j = m
    BY <1>1, <2>1 DEF DictInv, KeysUnique
  <2> QED BY <2>1, <2>2, <2>3
<1>9. entries' = t
  BY <1>6, <1>7, <1>8, NewTable DEF DictInv
<1>10. entries' = [x \in DOMAIN entries \cup {k} |-> IF x = k THEN cv ELSE entries[x]]
  BY <1>1, <1>9, TableAt
<1>11. CASE cv = v
  BY <1>3, <1>6, <1>10, <1>11 DEF Map!Set
<1>12. CASE cv = NULL /\ "val" \in Failures
  <2>1. entries' = [x \in Contents \cup {k} |-> IF x = k THEN NULL ELSE entries[x]]
    BY <1>10, <1>12, TableAt
  <2> QED BY <1>3, <1>6, <1>12, <2>1 DEF CopyLost
<1> QED BY <1>2, <1>11, <1>12

\* dictionary_set(), with its growth and its failures.
LEMMA SetStep ==
    ASSUME DictInv, NEW k \in Keys, NEW v \in Vals \cup {NULL}, Set(k, v)
    PROVE  DictInv' /\ (Map!Set(k, v) \/ Map!SetFails(k, v) \/ CopyLost(k, v))
<1>1. call' = <<"set", k, v>>
  BY DEF Set
<1>2. size \in Nat \ {0} /\ n \in Nat /\ n <= size
  BY SlotsFinite
<1>3. /\ key \in [Slots -> Keys \cup {NULL}] /\ val \in [Slots -> Vals \cup {NULL}]
      /\ hash \in [Slots -> Nat]
  BY DEF DictInv, DictionaryTypeOK
<1>4. CASE Replace(k, v)
  BY <1>1, <1>4, ReplaceStep
<1>5. CASE Add(k, v)
  <2>1. Match(k) = {} /\ n < size /\ Insert(k, v, size, key, val, hash)
    BY <1>5 DEF Add
  <2>2. size \in Nat /\ size <= size /\ n < size
    BY <1>2, <2>1
  <2>3. /\ key \in [0..size - 1 -> Keys \cup {NULL}]
        /\ val \in [0..size - 1 -> Vals \cup {NULL}] /\ hash \in [0..size - 1 -> Nat]
    BY <1>3 DEF Slots
  <2>4. \A i \in 0..size - 1 : i \notin Slots => key[i] = NULL
    BY DEF Slots
  <2> QED BY <1>1, <2>1, <2>2, <2>3, <2>4, Inserted
<1>6. CASE AddGrown(k, v)
  <2> DEFINE room == 2 * size
             K == Extend(key, NULL)
             V == Extend(val, NULL)
             H == Extend(hash, 0)
  <2>1. Match(k) = {} /\ n = size /\ Insert(k, v, room, K, V, H)
    BY <1>6 DEF AddGrown
  <2>2. room \in Nat /\ size <= room /\ n < room
    BY <1>2, <2>1
  <2>3. /\ K \in [0..room - 1 -> Keys \cup {NULL}]
        /\ V \in [0..room - 1 -> Vals \cup {NULL}] /\ H \in [0..room - 1 -> Nat]
    BY <1>2, <1>3 DEF Extend, Slots
  <2>4. /\ \A i \in Slots : K[i] = key[i] /\ V[i] = val[i] /\ H[i] = hash[i]
        /\ \A i \in 0..room - 1 : i \notin Slots => K[i] = NULL
    <3>1. \A i \in Slots : i \in 0..2 * size - 1 /\ i < size
      BY <1>2 DEF Slots
    <3>2. \A i \in 0..2 * size - 1 : i \notin Slots => ~(i < size)
      BY <1>2 DEF Slots
    <3> QED BY <3>1, <3>2 DEF Extend
  <2> HIDE DEF room, K, V, H
  <2>5. DictInv' /\ (Map!Set(k, v) \/ CopyLost(k, v))
    <3> HIDE DEF Map!Set, CopyLost
    <3> QED BY <1>1, <2>1, <2>2, <2>3, <2>4, Inserted
  <2> QED BY <2>5
<1>7. CASE GrowFails(k)
  <2>1. /\ answer' = "failed" /\ UNCHANGED <<size, n, key, val, hash>>
        /\ k \notin Contents
    BY <1>7, Matched DEF GrowFails
  <2>2. DictInv' /\ entries' = entries
    BY <1>1, <2>1, TableStays
  <2> QED BY <1>1, <2>1, <2>2, TableAt DEF Map!SetFails, entries
<1> QED BY <1>4, <1>5, <1>6, <1>7 DEF Set

\* dictionary_get().
LEMMA GetStep ==
    ASSUME DictInv, NEW k \in Keys, Get(k)
    PROVE  DictInv' /\ Map!Get(k)
<1>1. /\ call' = <<"get", k, NULL>> /\ UNCHANGED <<size, n, key, val, hash>>
      /\ answer' = IF Match(k) = {} THEN "absent" ELSE val[First(Match(k))]
  BY DEF Get, Answer
<1>2. answer' = IF k \in Contents THEN entries[k] ELSE "absent"
  BY <1>1, Matched, TableAt
<1>3. k \in Contents => entries[k] \in Vals \cup {NULL}
  BY Matched, TableAt DEF DictInv, DictionaryTypeOK, Used
<1>4. DictInv' /\ entries' = entries
  BY <1>1, <1>2, <1>3, TableStays
<1> QED BY <1>1, <1>2, <1>4, TableAt DEF Map!Get, entries

\* dictionary_unset().
LEMMA UnsetStep ==
    ASSUME DictInv, NEW k \in Keys, Unset(k)
    PROVE  DictInv' /\ Map!Unset(k)
<1>1. CASE k \notin Contents
  <2>1. /\ call' = <<"unset", k, NULL>> /\ answer' = "ok"
        /\ UNCHANGED <<size, n, key, val, hash>>
    BY <1>1, Matched DEF Unset, Answer
  <2>2. DictInv' /\ entries' = entries
    BY <2>1, TableStays
  <2>3. entries' = [x \in DOMAIN entries \ {k} |-> entries[x]]
    BY <1>1, <2>2, TableAt
  <2> QED BY <2>1, <2>2, <2>3 DEF Map!Unset, entries
<1>2. CASE k \in Contents
  <2> PICK m : m = KeyAt(k)
    OBVIOUS
  <2>1. m \in Used /\ key[m] = k /\ First(Match(k)) = m /\ Match(k) # {}
    BY <1>2, Matched
  <2>2. /\ key' = [key EXCEPT ![m] = NULL] /\ val' = [val EXCEPT ![m] = NULL]
        /\ hash' = [hash EXCEPT ![m] = 0] /\ n' = n - 1 /\ size' = size
        /\ call' = <<"unset", k, NULL>> /\ answer' = "ok"
    BY <2>1 DEF Unset
  <2>3. Slots' = Slots /\ m \in Slots
    BY <2>1, <2>2 DEF Slots, Used
  <2>4. /\ key'[m] = NULL
        /\ \A j \in Slots \ {m} : key'[j] = key[j] /\ val'[j] = val[j] /\ hash'[j] = hash[j]
    BY <2>2, <2>3 DEF DictInv, DictionaryTypeOK
  <2>5. Used' = Used \ {m}
    BY <2>3, <2>4 DEF Used
  <2>6. Cardinality(Used') = Cardinality(Used) - 1 /\ Cardinality(Used') \in Nat
    BY <2>1, <2>5, SlotsFinite, FS_RemoveElement, FS_CardinalityType
  <2>7. SearchEnds' /\ n' \in 0..size'
    BY <2>2, <2>6, SlotsFinite DEF DictInv, SearchEnds
  <2>8. DictionaryTypeOK'
    <3>1. /\ key' \in [Slots' -> Keys \cup {NULL}] /\ val' \in [Slots' -> Vals \cup {NULL}]
          /\ hash' \in [Slots' -> Nat]
      BY <2>2, <2>3 DEF DictInv, DictionaryTypeOK
    <3> QED BY <2>2, <2>7, <3>1, SlotsFinite DEF DictionaryTypeOK
  <2>9. \A j \in Used' : j \in Used /\ j \in Slots \ {m}
    BY <2>5 DEF Used
  <2>10. KeysUnique'
    BY <2>4, <2>9 DEF DictInv, KeysUnique
  <2>11. Contents' = Contents \ {k}
    BY <2>1, <2>4, <2>5, <2>9 DEF DictInv, KeysUnique, Contents
  <2> PICK t : t = [x \in Contents \ {k} |-> entries[x]]
    OBVIOUS
  <2>12. t = [x \in Contents' |-> t[x]]
    BY <2>11
  <2>13. \A j \in Used' : key'[j] \in Contents'
    BY DEF Contents
  <2>14. \A j \in Used' : t[key'[j]] = val'[j]
    BY <2>4, <2>9, <2>11, <2>13, TableAt
  <2>15. entries' = t
    BY <2>10, <2>12, <2>14, NewTable
  <2>16. entries' = [x \in DOMAIN entries \ {k} |-> entries[x]]
    BY <2>15, TableAt
  <2> QED BY <2>2, <2>7, <2>8, <2>10, <2>16 DEF DictInv, Map!Unset, entries
<1> QED BY <1>1, <1>2

\* Every call keeps the table in order, and is a call of the map or loses a copy;
\* where copies find their memory, it is a call of the map.
MapStep == Map!Next \/ \E k \in Keys, v \in Vals \cup {NULL} : CopyLost(k, v)

LEMMA DictionaryStep ==
    ASSUME DictInv, [DictionaryNext]_dictionaryVars
    PROVE  DictInv' /\ [MapStep]_<<entries, call, answer>>
<1>1. ASSUME NEW k \in Keys, NEW v \in Vals \cup {NULL}, Set(k, v)
      PROVE  DictInv' /\ MapStep
  BY <1>1, SetStep DEF Map!Next, MapStep
<1>2. ASSUME NEW k \in Keys, Unset(k) \/ Get(k) PROVE DictInv' /\ MapStep
  BY <1>2, UnsetStep, GetStep DEF Map!Next, MapStep
<1>3. CASE UNCHANGED dictionaryVars
  <2>1. DictInv' /\ entries' = entries
    BY <1>3, TableStays DEF dictionaryVars, DictInv, DictionaryTypeOK
  <2> QED BY <1>3, <2>1 DEF dictionaryVars
<1> QED BY <1>1, <1>2, <1>3 DEF DictionaryNext

\* For every hash function, whatever was set, removed and moved by a growth and
\* wherever memory runs out, the table changes as the map it promises or loses the
\* copy there was no memory for: no lookup misses a key, and no search for a free
\* slot goes on for ever.
THEOREM BehavesAsMap == DictionarySpec => LosesOnlyCopies
<1>1. DictInv /\ [DictionaryNext]_dictionaryVars => DictInv' /\ [MapStep]_<<entries, call, answer>>
  BY DictionaryStep
<1>2. DictInv => DictionaryTypeOK /\ KeysUnique /\ SearchEnds
  BY DEF DictInv
<1> QED
  BY <1>1, <1>2, DictionaryStarts, PTL DEF DictionarySpec, LosesOnlyCopies, MapStep

\* What dictionary.h promises holds as long as only the growth may fail: the one
\* failure that dictionary_set() answers.
THEOREM IsMapWhenCopiesSucceed ==
    Failures \cap {"key", "val"} = {} => (DictionarySpec => IsKeyMap)
<1> SUFFICES ASSUME Failures \cap {"key", "val"} = {} PROVE DictionarySpec => IsKeyMap
  OBVIOUS
<1>1. MapStep => Map!Next
  BY DEF MapStep, CopyLost
<1>2. DictInv /\ [DictionaryNext]_dictionaryVars => DictInv' /\ [Map!Next]_<<entries, call, answer>>
  BY <1>1, DictionaryStep
<1> QED BY <1>2, DictionaryStarts, PTL DEF DictionarySpec, IsKeyMap, Map!Spec

-----------------------------------------------------------------------------
(* IspSettings: first what one setter changes, then a group of setters, then  *)
(* all groups in their order, and last the behaviours.                       *)

LEMMA WordsAreValues ==
    {"close", "open", "auto", "on", "off", "0", "1", "5", "50", "day", "autoWhiteBalance", "iq", "none",
     "hdr_level", "dark_boost_level"} \subseteq Values
  BY DEF Values

Setters == Settings \ {"hdr"}

Agrees(s, k) == s.hw[k] = Param(s, k)

\* Setting k was tried in this call: its getter tells the attribute, or the image
\* processor has refused it.
Tried(s, k) == IF k \in s.refused THEN k \in s.failing ELSE Agrees(s, k)

\* The step from s to t changes at most the parameters ks, whether they were
\* refused, and the attributes as.
Changes(s, t, ks, as) ==
    /\ t \in IspStates /\ t.scenario = s.scenario /\ t.wdr = s.wdr /\ t.failing = s.failing
    /\ \A k \in Settings \ ks : Param(t, k) = Param(s, k) /\ (k \in t.refused <=> k \in s.refused)
    /\ \A a \in Attributes \ as : t.hw[a] = s.hw[a]

\* The attributes that the setter of a parameter may change.
Touched(k) ==
    {k} \cup
    (CASE k \in {"exposure_mode", "gain_mode", "exposure_gain"} -> {"gain_en"}
       [] k = "blc_region" -> {"blc_strength"}
       [] k = "hlc" -> {"hlc_level"}
       [] k \in {"hdr_level", "dark_boost_level"} -> {"drc"}
       [] k = "dehaze" -> {"dehaze_level"}
       [] k = "spatial_denoise_level" -> {"ynr"}
       [] OTHER -> {})

LEMMA ParamType ==
    ASSUME NEW s \in IspStates, NEW k \in Settings
    PROVE  Param(s, k) \in Values
  BY DEF IspStates, Param

LEMMA SetParamChanges ==
    ASSUME NEW s \in IspStates, NEW k \in Settings, NEW v \in Values
    PROVE  /\ Changes(s, SetParam(s, k, v), {k}, {})
           /\ Param(SetParam(s, k, v), k) = v
<1> DEFINE t == SetParam(s, k, v)
<1>1. t \in IspStates
  BY DEF SetParam, IspStates
<1>2. /\ t.scenario = s.scenario /\ t.wdr = s.wdr /\ t.hw = s.hw
      /\ t.failing = s.failing /\ t.refused = s.refused
  BY DEF SetParam, IspStates
<1>3. t.ini[s.scenario] = [s.ini[s.scenario] EXCEPT ![k] = v]
  BY DEF SetParam, IspStates
<1>4. s.ini[s.scenario] \in [Settings -> Values]
  BY DEF IspStates
<1> HIDE DEF t
<1>5. Param(t, k) = v /\ \A g \in Settings \ {k} : Param(t, g) = Param(s, g)
  BY <1>2, <1>3, <1>4 DEF Param
<1> QED BY <1>1, <1>2, <1>5 DEF Changes, t

\* A write to attribute a by the setter of k, which is taken or refused.
LEMMA SdkWriteChanges ==
    ASSUME NEW s \in IspStates, NEW k \in Settings, NEW a \in Attributes, NEW v \in Values
    PROVE  LET t == SdkWrite(s, k, a, v) IN
           /\ Changes(s, t, {k}, {a}) /\ Param(t, k) = Param(s, k)
           /\ k \in t.refused <=> k \in s.failing
           /\ k \notin s.failing => t.hw[a] = v
<1> DEFINE t == SdkWrite(s, k, a, v)
<1>1. s.refused \subseteq Settings /\ s.hw \in [Attributes -> Values]
  BY DEF IspStates
<1>2. /\ t.ini = s.ini /\ t.scenario = s.scenario /\ t.wdr = s.wdr /\ t.failing = s.failing
      /\ t.refused = IF k \in s.failing THEN s.refused \cup {k} ELSE s.refused \ {k}
      /\ t.hw = IF k \in s.failing THEN s.hw ELSE [s.hw EXCEPT ![a] = v]
  BY DEF SdkWrite, IspStates
<1>3. t \in IspStates
  <2>1. CASE k \in s.failing
    BY <1>1, <2>1 DEF SdkWrite, IspStates
  <2>2. CASE k \notin s.failing
    BY <1>1, <2>2 DEF SdkWrite, IspStates
  <2> QED BY <2>1, <2>2
<1> HIDE DEF t
<1>4. \A g : Param(t, g) = Param(s, g)
  BY <1>2 DEF Param
<1>5. \A g \in Settings \ {k} : g \in t.refused <=> g \in s.refused
  BY <1>2
<1>6. (\A b \in Attributes \ {a} : t.hw[b] = s.hw[b]) /\ (k \notin s.failing => t.hw[a] = v)
  BY <1>1, <1>2
<1>7. Changes(s, t, {k}, {a})
  BY <1>2, <1>3, <1>4, <1>5, <1>6 DEF Changes
<1>8. k \in t.refused <=> k \in s.failing
  BY <1>2
<1> QED BY <1>4, <1>6, <1>7, <1>8 DEF t

LEMMA BothChanges ==
    ASSUME NEW s \in IspStates, NEW k \in Settings \cap Attributes, NEW v \in Values
    PROVE  LET t == Both(s, k, v) IN
           /\ Changes(s, t, {k}, {k}) /\ Param(t, k) = v /\ Tried(t, k)
           /\ k \notin s.failing => Agrees(t, k)
<1> DEFINE m == SetParam(s, k, v)
           t == SdkWrite(m, k, k, v)
<1>1. Changes(s, m, {k}, {}) /\ Param(m, k) = v
  BY SetParamChanges
<1>2. m \in IspStates /\ m.failing = s.failing
  BY <1>1 DEF Changes
<1>3. Both(s, k, v) = t
  BY DEF Both
<1> HIDE DEF m
<1>4. /\ Changes(m, t, {k}, {k}) /\ Param(t, k) = v
      /\ k \in t.refused <=> k \in s.failing
      /\ k \notin s.failing => t.hw[k] = v
  BY <1>1, <1>2, SdkWriteChanges
<1> HIDE DEF t
<1>5. Changes(s, t, {k}, {k})
  BY <1>1, <1>4 DEF Changes
<1>6. Tried(t, k) /\ (k \notin s.failing => Agrees(t, k))
  BY <1>4, <1>5 DEF Changes, Tried, Agrees
<1> QED BY <1>3, <1>4, <1>5, <1>6

\* Which setter a parameter has.
LEMMA SetterOf ==
    ASSUME NEW s, NEW v
    PROVE  /\ \A k \in Direct \cup {"white_blance_style"} : Apply(s, k, v) = Both(s, k, v)
           /\ \A k \in IniOnly : Apply(s, k, v) = SetParam(s, k, v)
           /\ Apply(s, "sharpness", v) = Sharpness(s, v)
           /\ Apply(s, "exposure_mode", v) = ExposureMode(s, v)
           /\ Apply(s, "gain_mode", v) = GainMode(s, v)
           /\ Apply(s, "exposure_gain", v) = ExposureGain(s, v)
           /\ Apply(s, "night_to_day", v) = NightToDay(s, v)
           /\ Apply(s, "light_brightness", v) = LightBrightness(s, v)
           /\ Apply(s, "blc_region", v) = Compensation(s, "blc_region", "blc_strength", v)
           /\ Apply(s, "hlc", v) = Compensation(s, "hlc", "hlc_level", v)
           /\ Apply(s, "blc_strength", v) = Strength(s, "blc_strength", "blc_region", v)
           /\ Apply(s, "hlc_level", v) = Strength(s, "hlc_level", "hlc", AtLeastOne(v))
           /\ \A k \in {"hdr_level", "dark_boost_level"} : Apply(s, k, v) = Drc(s, k, v)
           /\ \A k \in BalanceGains : Apply(s, k, v) = WhiteBalance(s, k, v)
           /\ Apply(s, "dehaze", v) = Dehaze(s, v)
           /\ Apply(s, "dehaze_level", v) = DehazeLevel(s, v)
           /\ Apply(s, "spatial_denoise_level", v) =
                Denoise(s, "spatial_denoise_level", {"close", "3dnr"}, v)
           /\ Apply(s, "temporal_denoise_level", v) =
                Denoise(s, "temporal_denoise_level", {"close", "2dnr"}, v)
  BY SMT DEF Apply, IniOnly, Direct, ImageDirect, EnhancementDirect, VideoDirect, BalanceGains

\* A setter changes its own parameter, and a getter then tells what was set unless
\* the image processor has refused it.
LEMMA SetterChanges ==
    ASSUME NEW s \in IspStates, NEW k \in Setters, NEW v \in Values
    PROVE  /\ Changes(s, Apply(s, k, v), {k}, Touched(k))
           /\ k \in Getters => Tried(Apply(s, k, v), k)
<1> DEFINE t == Apply(s, k, v)
           Goal == Changes(s, t, {k}, Touched(k)) /\ (k \in Getters => Tried(t, k))
<1>1. Changes(s, s, {k}, Touched(k)) /\ k \in Touched(k) /\ k \in Settings
  BY DEF Changes, Touched, Setters
<1>2. \/ k \in IniOnly \/ k \in Attributes
      \/ k \in {"gain_mode", "light_brightness", "hdr_level", "dark_boost_level", "spatial_denoise_level"}
  BY <1>1 DEF Attributes, Setters
<1>3. {"gain_en", "drc", "ynr", "blc_strength", "hlc_level", "dehaze_level", "blc_region", "hlc"}
        \subseteq Attributes
  BY DEF Attributes, Settings, IniOnly
<1>4. ASSUME k \in Attributes, NEW w \in Values, t = Both(s, k, w) PROVE Goal
  <2>1. Changes(s, t, {k}, {k}) /\ Tried(t, k)
    BY <1>1, <1>4, BothChanges
  <2> QED BY <1>1, <2>1 DEF Changes
<1>5. ASSUME k \in Attributes, NEW u \in Values, NEW a \in (Touched(k) \cap Attributes) \ {k},
             NEW w \in Values, t = SdkWrite(Both(s, k, u), k, a, w)
      PROVE  Goal
  <2> DEFINE b == Both(s, k, u)
  <2>1. Changes(s, b, {k}, {k}) /\ (k \notin s.failing => Agrees(b, k))
    BY <1>1, <1>5, BothChanges
  <2>2. b \in IspStates /\ b.failing = s.failing
    BY <2>1 DEF Changes
  <2>3. t = SdkWrite(b, k, a, w)
    BY <1>5
  <2> HIDE DEF b, t
  <2>4. Changes(b, t, {k}, {a}) /\ Param(t, k) = Param(b, k) /\ (k \in t.refused <=> k \in s.failing)
    BY <1>1, <2>2, <2>3, SdkWriteChanges
  <2>5. t.hw[k] = b.hw[k] /\ t.failing = s.failing
    BY <1>5, <2>2, <2>4 DEF Changes
  <2>6. Tried(t, k)
    BY <2>1, <2>4, <2>5 DEF Agrees, Tried
  <2> QED BY <1>1, <1>5, <2>1, <2>4, <2>6 DEF Changes
<1>6. ASSUME NEW u \in Values, NEW a \in Touched(k) \cap Attributes, NEW w \in Values,
              t = SdkWrite(SetParam(s, k, u), k, a, w), k \notin Getters
       PROVE  Goal
  <2> DEFINE b == SetParam(s, k, u)
  <2>1. Changes(s, b, {k}, {})
    BY <1>1, SetParamChanges
  <2>2. b \in IspStates /\ t = SdkWrite(b, k, a, w)
    BY <1>6, <2>1 DEF Changes
  <2> HIDE DEF b, t
  <2>3. Changes(b, t, {k}, {a})
    BY <1>1, <2>2, SdkWriteChanges
  <2> QED BY <1>1, <1>6, <2>1, <2>3 DEF Changes
<1>7. t = s /\ k \notin Getters => Goal
  BY <1>1
<1> SUFFICES Goal
  OBVIOUS
<1> HIDE DEF Goal, t
<1>8. CASE k \in Direct \cup {"white_blance_style"}
  <2>1. k \in Attributes
    BY <1>2, <1>8 DEF IniOnly, Direct, ImageDirect, EnhancementDirect, VideoDirect
  <2>2. t = Both(s, k, v)
    BY <1>8, SetterOf DEF t
  <2> QED BY <1>4, <2>1, <2>2
<1>9. CASE k \in IniOnly
  <2>1. k \notin Getters
    BY <1>9 DEF IniOnly, Getters, Direct, ImageDirect, EnhancementDirect, VideoDirect
  <2>2. Changes(s, SetParam(s, k, v), {k}, {})
    BY <1>1, SetParamChanges
  <2>3. t = SetParam(s, k, v)
    BY <1>9, SetterOf DEF t
  <2>4. Changes(s, t, {k}, Touched(k))
    BY <2>2, <2>3 DEF Changes
  <2> QED BY <2>1, <2>4 DEF Goal
<1>10. CASE k \in {"exposure_mode", "exposure_gain"}
  <2>1. "gain_en" \in (Touched(k) \cap Attributes) \ {k} /\ k \in Attributes
    BY <1>2, <1>3, <1>10 DEF Touched, IniOnly
  <2>2. \/ t = Both(s, k, v)
        \/ \E w \in Values : t = SdkWrite(Both(s, k, v), k, "gain_en", w)
    <3>1. CASE k = "exposure_mode"
      <4>1. t = ExposureMode(s, v)
        BY <3>1, SetterOf DEF t
      <4> QED BY <3>1, <4>1, WordsAreValues DEF ExposureMode
    <3>2. CASE k = "exposure_gain"
      <4>1. t = ExposureGain(s, v)
        BY <3>2, SetterOf DEF t
      <4> QED BY <3>2, <4>1, WordsAreValues DEF ExposureGain
    <3> QED BY <1>10, <3>1, <3>2
  <2> QED BY <1>4, <1>5, <2>1, <2>2
<1>11. CASE k = "gain_mode"
  <2>1. k \notin Getters /\ "gain_en" \in Touched(k) \cap Attributes
    BY <1>3, <1>11 DEF Touched, Getters, Direct, ImageDirect, EnhancementDirect, VideoDirect
  <2>2. PICK w \in Values : t = SdkWrite(SetParam(s, k, v), k, "gain_en", w)
    <3>1. t = GainMode(s, v)
      BY <1>11, SetterOf DEF t
    <3> QED BY <1>11, <3>1, WordsAreValues DEF GainMode
  <2> QED BY <1>6, <2>1, <2>2
<1>12. CASE k = "sharpness"
  <2>1. k \in Touched(k) \cap Attributes
    BY <1>1, <1>2, <1>12 DEF IniOnly
  <2>2. CASE k \in s.failing
    <3>1. t = SdkWrite(s, k, k, v)
      <4>1. t = Sharpness(s, v)
        BY <1>12, SetterOf DEF t
      <4> QED BY <1>12, <2>2, <4>1 DEF Sharpness
    <3>2. Changes(s, t, {k}, {k}) /\ (k \in t.refused <=> k \in s.failing)
      BY <1>1, <2>1, <3>1, SdkWriteChanges
    <3>3. Tried(t, k)
      BY <2>2, <3>2 DEF Changes, Tried
    <3> QED BY <1>1, <3>2, <3>3 DEF Changes, Goal
  <2>3. CASE k \notin s.failing
    <3>1. t = Sharpness(s, v)
      BY <1>12, SetterOf DEF t
    <3>2. t = Both(s, k, v)
      BY <1>12, <2>3, <3>1 DEF Sharpness
    <3> QED BY <1>4, <2>1, <3>2
  <2> QED BY <2>2, <2>3
<1>13. CASE k = "night_to_day"
  <2> DEFINE b == Both(s, k, v)
  <2>1. k \in Attributes
    BY <1>2, <1>13 DEF IniOnly
  <2>2. Changes(s, b, {k}, {k}) /\ Tried(b, k)
    BY <1>1, <2>1, BothChanges
  <2>3. t = [b EXCEPT !.lit = IF v = "night" THEN @ ELSE FALSE]
    <3>1. t = NightToDay(s, v)
      BY <1>13, SetterOf DEF t
    <3> QED BY <1>13, <3>1 DEF NightToDay
  <2> HIDE DEF b
  <2>4. t \in IspStates
    BY <2>2, <2>3 DEF Changes, IspStates
  <2>5. /\ t.hw = b.hw /\ t.scenario = b.scenario /\ t.wdr = b.wdr
        /\ t.failing = b.failing /\ t.refused = b.refused
        /\ \A g : Param(t, g) = Param(b, g)
    <3>1. b \in IspStates
      BY <2>2 DEF Changes
    <3>2. /\ t.hw = b.hw /\ t.scenario = b.scenario /\ t.wdr = b.wdr /\ t.ini = b.ini
          /\ t.failing = b.failing /\ t.refused = b.refused
      BY <2>3, <3>1 DEF IspStates
    <3> QED BY <3>2 DEF Param
  <2>6. Changes(b, t, {}, {})
    BY <2>4, <2>5 DEF Changes
  <2>7. Changes(s, t, {k}, {k})
    BY <2>2, <2>6 DEF Changes
  <2>8. Changes(s, t, {k}, Touched(k)) /\ Tried(t, k)
    BY <1>1, <2>2, <2>5, <2>7 DEF Changes, Agrees, Tried
  <2> QED BY <2>8 DEF Goal
<1>14. CASE k = "light_brightness"
  <2> DEFINE b == SetParam(s, k, v)
  <2>1. k \notin Getters
    BY <1>14 DEF Getters, Direct, ImageDirect, EnhancementDirect, VideoDirect
  <2>2. Changes(s, b, {k}, {})
    BY <1>1, SetParamChanges
  <2>3. t = s \/ t = [b EXCEPT !.level = v, !.lit = PwmWorks]
    BY <1>14, SetterOf DEF LightBrightness, t
  <2> HIDE DEF b
  <2>4. ASSUME t # s PROVE Changes(b, t, {}, {})
    <3>1. b \in IspStates
      BY <2>2 DEF Changes
    <3>2. t \in IspStates
      BY <2>3, <2>4, <3>1, IspAssumption DEF IspStates
    <3>3. /\ t.hw = b.hw /\ t.scenario = b.scenario /\ t.wdr = b.wdr /\ t.ini = b.ini
          /\ t.failing = b.failing /\ t.refused = b.refused
      BY <2>3, <2>4, <3>1 DEF IspStates
    <3> QED BY <3>2, <3>3 DEF Param, Changes
  <2>5. ASSUME t # s PROVE Changes(s, t, {k}, Touched(k))
    BY <2>2, <2>4, <2>5 DEF Changes
  <2> QED BY <1>7, <2>1, <2>5 DEF Goal
<1>15. CASE k \in {"blc_region", "hlc"}
  <2>1. k \notin Getters /\ k \in Attributes
    BY <1>2, <1>15 DEF Getters, IniOnly, Direct, ImageDirect, EnhancementDirect, VideoDirect
  <2>2. PICK a \in {"blc_strength", "hlc_level"} : a \in Touched(k) /\ t = Compensation(s, k, a, v)
    BY <1>15, SetterOf DEF Touched, t
  <2> DEFINE shown == IF v = "close" THEN v ELSE "open"
             c == SdkWrite(SetParam(s, k, v), k, k, shown)
  <2>3. t = s \/ t = SdkWrite(c, k, a, "0")
    BY <2>2 DEF Compensation
  <2>4. shown \in Values /\ "0" \in Values
    BY WordsAreValues
  <2> HIDE DEF shown
  <2>5. Changes(s, c, {k}, {k})
    <3>1. Changes(s, SetParam(s, k, v), {k}, {})
      BY <1>1, SetParamChanges
    <3>2. Changes(SetParam(s, k, v), c, {k}, {k})
      <4> HIDE DEF c
      <4>1. SetParam(s, k, v) \in IspStates
        BY <3>1 DEF Changes
      <4> QED BY <1>1, <2>1, <2>4, <4>1, SdkWriteChanges DEF c
    <3> HIDE DEF c
    <3> QED BY <3>1, <3>2 DEF Changes
  <2> HIDE DEF c
  <2>6. Changes(c, SdkWrite(c, k, a, "0"), {k}, {a})
    <3>1. c \in IspStates
      BY <2>5 DEF Changes
    <3> QED BY <1>1, <1>3, <2>4, <3>1, SdkWriteChanges
  <2>7. ASSUME t # s PROVE Changes(s, t, {k}, Touched(k))
    <3>1. Changes(c, t, {k}, {a})
      BY <2>3, <2>6, <2>7
    <3> QED BY <1>1, <2>2, <2>5, <3>1 DEF Changes
  <2> QED BY <1>7, <2>1, <2>7 DEF Goal
<1>16. CASE k \in {"blc_strength", "hlc_level"} \cup BalanceGains \cup {"dehaze_level"}
  <2>1. k \notin Getters /\ k \in Attributes
    BY <1>2, <1>16 DEF Getters, IniOnly, Direct, ImageDirect, EnhancementDirect, VideoDirect, BalanceGains
  <2>2. AtLeastOne(v) \in Values
    BY WordsAreValues DEF AtLeastOne
  <2>3. t = s \/ \E w \in Values : t = Both(s, k, w)
    <3>1. CASE k \in BalanceGains
      <4>1. t = WhiteBalance(s, k, v)
        BY <3>1, SetterOf DEF t
      <4> QED BY <2>2, <4>1 DEF WhiteBalance
    <3>2. CASE k = "blc_strength"
      <4>1. t = Strength(s, k, "blc_region", v)
        BY <3>2, SetterOf DEF t
      <4> QED BY <4>1 DEF Strength
    <3>3. CASE k = "hlc_level"
      <4>1. t = Strength(s, k, "hlc", AtLeastOne(v))
        BY <3>3, SetterOf DEF t
      <4> QED BY <2>2, <4>1 DEF Strength
    <3>4. CASE k = "dehaze_level"
      <4>1. t = DehazeLevel(s, v)
        BY <3>4, SetterOf DEF t
      <4> QED BY <3>4, <4>1 DEF DehazeLevel
    <3> QED BY <1>16, <3>1, <3>2, <3>3, <3>4
  <2> QED BY <1>4, <1>7, <2>1, <2>3
<1>17. CASE k \in {"hdr_level", "dark_boost_level"}
  <2>1. k \notin Getters /\ "drc" \in Touched(k) \cap Attributes /\ k \in Values
    BY <1>3, <1>17, WordsAreValues
    DEF Getters, Touched, Direct, ImageDirect, EnhancementDirect, VideoDirect
  <2>2. t = SdkWrite(SetParam(s, k, v), k, "drc", k)
    <3>1. t = Drc(s, k, v)
      BY <1>17, SetterOf DEF t
    <3> QED BY <3>1 DEF Drc
  <2> QED BY <1>6, <2>1, <2>2
<1>18. CASE k = "dehaze"
  <2>1. "dehaze_level" \in (Touched(k) \cap Attributes) \ {k} /\ k \in Attributes
    BY <1>2, <1>3, <1>18 DEF Touched, IniOnly
  <2>2. \/ t = Both(s, k, v)
        \/ t = SdkWrite(Both(s, k, v), k, "dehaze_level", "5")
    <3>1. t = Dehaze(s, v)
      BY <1>18, SetterOf DEF t
    <3> QED BY <1>18, <3>1 DEF Dehaze
  <2>3. "5" \in Values
    BY WordsAreValues
  <2> QED BY <1>4, <1>5, <2>1, <2>2, <2>3
<1>19. CASE k \in {"spatial_denoise_level", "temporal_denoise_level"}
  <2>1. PICK off : t = Denoise(s, k, off, v)
    BY <1>19, SetterOf DEF t
  <2>2. k \notin Getters
    BY <1>19 DEF Getters, Direct, ImageDirect, EnhancementDirect, VideoDirect
  <2> DEFINE a == IF k = "spatial_denoise_level" THEN "ynr" ELSE k
             w == IF Param(s, "noise_reduce_mode") \in off THEN "50" ELSE v
  <2>3. a \in Touched(k) \cap Attributes
    <3>1. CASE k = "spatial_denoise_level"
      BY <1>3, <3>1 DEF Touched
    <3>2. CASE k = "temporal_denoise_level"
      BY <1>1, <3>2 DEF Attributes, IniOnly, Settings
    <3> QED BY <1>19, <3>1, <3>2
  <2>4. w \in Values
    BY WordsAreValues
  <2>5. t = SdkWrite(SetParam(s, k, w), k, a, w)
    BY <2>1 DEF Denoise
  <2> HIDE DEF a, w
  <2> QED BY <1>6, <2>2, <2>3, <2>4, <2>5
<1>20. k \in Direct \cup IniOnly \cup BalanceGains \cup
         {"sharpness", "exposure_mode", "gain_mode", "exposure_gain", "night_to_day", "light_brightness",
          "blc_region", "hlc", "hdr_level", "blc_strength", "hlc_level", "dark_boost_level",
          "white_blance_style", "dehaze", "spatial_denoise_level", "temporal_denoise_level",
          "dehaze_level"}
  BY DEF Setters, Settings
<1> QED
  BY <1>8, <1>9, <1>10, <1>13, <1>14, <1>15, <1>16, <1>17, <1>18, <1>19, <1>20, <1>11, <1>12

\* f is the settings after each setter of a group.
Runs(f, s, keys) ==
    f = [i \in 0..Len(keys) |->
            IF i = 0 THEN s ELSE Apply(f[i - 1], keys[i], Param(f[i - 1], keys[i]))]

LEMMA RunExists ==
    ASSUME NEW s, NEW keys, Len(keys) \in Nat
    PROVE  \E f : Runs(f, s, keys)
<1> DEFINE Next(t, i) == Apply(t, keys[i], Param(t, keys[i]))
           Upto(f, m) == /\ f = [i \in 0..m |-> f[i]] /\ f[0] = s
                         /\ \A i \in 1..m : f[i] = Next(f[i - 1], i)
           S == {m \in Nat : \E f : Upto(f, m)}
<1>1. 0 \in S
  <2>1. Upto([i \in 0..0 |-> s], 0)
    OBVIOUS
  <2> QED BY <2>1
<1>2. ASSUME NEW m \in Nat, m \in S PROVE m + 1 \in S
  <2>1. PICK f : Upto(f, m)
    BY <1>2
  <2> DEFINE g == [i \in 0..m + 1 |-> IF i = m + 1 THEN Next(f[m], m + 1) ELSE f[i]]
  <2> HIDE DEF Next
  <2>2. g = [i \in 0..m + 1 |-> g[i]] /\ \A i \in 0..m : g[i] = f[i]
    OBVIOUS
  <2>3. g[m + 1] = Next(f[m], m + 1) /\ g[0] = s /\ g[m] = f[m]
    BY <2>1
  <2> HIDE DEF g
  <2>4. ASSUME NEW i \in 1..m + 1 PROVE g[i] = Next(g[i - 1], i)
    <3>1. CASE i = m + 1
      BY <2>3, <3>1
    <3>2. CASE i # m + 1
      <4>1. i \in 1..m /\ i - 1 \in 0..m /\ i \in 0..m
        BY <3>2
      <4>2. g[i] = f[i] /\ g[i - 1] = f[i - 1] /\ f[i] = Next(f[i - 1], i)
        BY <2>1, <2>2, <4>1
      <4> QED BY <4>2
    <3> QED BY <3>1, <3>2
  <2>5. Upto(g, m + 1)
    BY <2>2, <2>3, <2>4
  <2> HIDE DEF Upto
  <2> QED BY <2>5
<1> HIDE DEF S
<1>3. Len(keys) \in S
  BY <1>1, <1>2, InductionOverSet
<1>4. PICK f : Upto(f, Len(keys))
  BY <1>3 DEF S
<1>5. \A i \in 0..Len(keys) :
        f[i] = IF i = 0 THEN s ELSE Apply(f[i - 1], keys[i], Param(f[i - 1], keys[i]))
  BY <1>4
<1>6. Runs(f, s, keys)
  BY <1>4, <1>5, Zenon DEF Runs
<1> QED BY <1>6

\* The same, step by step.
Steps(f, s, keys) ==
    /\ f[0] = s
    /\ \A i \in 1..Len(keys) : f[i] = Apply(f[i - 1], keys[i], Param(f[i - 1], keys[i]))

LEMMA GroupSteps ==
    ASSUME NEW s, NEW keys, Len(keys) \in Nat
    PROVE  \E f : Steps(f, s, keys) /\ RunGroup(s, keys) = f[Len(keys)]
<1> DEFINE f == CHOOSE run : Runs(run, s, keys)
<1>1. RunGroup(s, keys) = f[Len(keys)]
  BY DEF RunGroup, Runs
<1>2. Runs(f, s, keys)
  BY RunExists
<1>3. ASSUME NEW run, Runs(run, s, keys) PROVE Steps(run, s, keys)
  BY <1>3 DEF Runs, Steps
<1> HIDE DEF f
<1> QED BY <1>1, <1>2, <1>3

\* After i setters of a group only theirs may have changed, and they, as those
\* written before in the call, tell what was set.
Follow(s, t, keys, i) ==
    /\ t \in IspStates /\ t.scenario = s.scenario /\ t.wdr = s.wdr /\ t.failing = s.failing
    /\ \A k \in Settings : Param(t, k) = Param(s, k) \/ \E j \in 1..i : keys[j] = k
    /\ \A a \in Attributes : t.hw[a] = s.hw[a] \/ \E j \in 1..i : a \in Touched(keys[j])
    /\ \A k \in Getters : Tried(s, k) \/ (\E j \in 1..i : keys[j] = k) => Tried(t, k)

LEMMA OwnAttribute == \A g \in Getters, k \in Setters : g \in Touched(k) => g = k
  BY DEF Touched, Getters, Setters, Settings, Direct, ImageDirect, EnhancementDirect, VideoDirect

LEMMA GettersAre == Getters \subseteq Setters \cap Attributes
  BY DEF Getters, Setters, Attributes, Settings, IniOnly, Direct, ImageDirect, EnhancementDirect, VideoDirect

LEMMA OneSetter ==
    ASSUME NEW s \in IspStates, NEW t, NEW keys \in Seq(Setters), NEW i \in 1..Len(keys),
           Follow(s, t, keys, i - 1)
    PROVE  Follow(s, Apply(t, keys[i], Param(t, keys[i])), keys, i)
<1> DEFINE k == keys[i]
           u == Apply(t, k, Param(t, k))
<1>1. k \in Setters /\ k \in Settings /\ t \in IspStates
  BY DEF Setters, Follow
<1>2. Param(t, k) \in Values
  BY <1>1, ParamType
<1>3. Changes(t, u, {k}, Touched(k)) /\ (k \in Getters => Tried(u, k))
  BY <1>1, <1>2, SetterChanges
<1>4. i \in 1..i /\ \A j \in 1..i - 1 : j \in 1..i
  OBVIOUS
<1> HIDE DEF u
<1>5. u \in IspStates /\ u.scenario = s.scenario /\ u.wdr = s.wdr /\ u.failing = s.failing
  BY <1>3 DEF Changes, Follow
<1>6. ASSUME NEW g \in Settings
      PROVE  Param(u, g) = Param(s, g) \/ \E j \in 1..i : keys[j] = g
  BY <1>3, <1>4 DEF Changes, Follow
<1>7. ASSUME NEW a \in Attributes
      PROVE  u.hw[a] = s.hw[a] \/ \E j \in 1..i : a \in Touched(keys[j])
  BY <1>3, <1>4 DEF Changes, Follow
<1>8. ASSUME NEW g \in Getters, Tried(s, g) \/ \E j \in 1..i : keys[j] = g
      PROVE  Tried(u, g)
  <2>1. CASE g = k
    BY <1>3, <2>1
  <2>2. CASE g # k
    <3>1. Tried(t, g)
      <4>1. \A j \in 1..i : keys[j] = g => j \in 1..i - 1
        BY <2>2
      <4> QED BY <1>8, <4>1 DEF Follow
    <3>2. g \in Settings \ {k} /\ g \in Attributes \ Touched(k)
      BY <1>1, <2>2, OwnAttribute, GettersAre DEF Setters
    <3> QED BY <1>3, <3>1, <3>2 DEF Changes, Agrees, Tried
  <2> QED BY <2>1, <2>2
<1> QED BY <1>5, <1>6, <1>7, <1>8 DEF Follow, u

LEMMA SettersFollow ==
    ASSUME NEW s \in IspStates, NEW keys \in Seq(Setters), NEW f, Steps(f, s, keys)
    PROVE  \A i \in 0..Len(keys) : Follow(s, f[i], keys, i)
<1> DEFINE S == {i \in Nat : i <= Len(keys) => Follow(s, f[i], keys, i)}
<1>1. Len(keys) \in Nat
  OBVIOUS
<1>2. 0 \in S
  BY DEF Steps, Follow
<1>3. ASSUME NEW i \in Nat, i \in S PROVE i + 1 \in S
  <2> SUFFICES ASSUME i + 1 <= Len(keys) PROVE Follow(s, f[i + 1], keys, i + 1)
    OBVIOUS
  <2>1. i + 1 \in 1..Len(keys) /\ (i + 1) - 1 = i /\ Follow(s, f[i], keys, i)
    BY <1>1, <1>3
  <2>2. Follow(s, Apply(f[i], keys[i + 1], Param(f[i], keys[i + 1])), keys, i + 1)
    BY <2>1, OneSetter
  <2>3. f[i + 1] = Apply(f[i], keys[i + 1], Param(f[i], keys[i + 1]))
    BY <2>1 DEF Steps
  <2> QED BY <2>2, <2>3
<1> HIDE DEF S
<1>4. Nat \subseteq S
  BY <1>2, <1>3, InductionOverSet
<1> QED BY <1>1, <1>4 DEF S

LEMMA GroupFollows ==
    ASSUME NEW s \in IspStates, NEW keys \in Seq(Setters)
    PROVE  Follow(s, RunGroup(s, keys), keys, Len(keys))
<1>1. Len(keys) \in Nat
  OBVIOUS
<1>2. PICK f : Steps(f, s, keys) /\ RunGroup(s, keys) = f[Len(keys)]
  BY <1>1, GroupSteps
<1>3. Follow(s, f[Len(keys)], keys, Len(keys))
  BY <1>1, <1>2, SettersFollow
<1> QED BY <1>2, <1>3

LEMMA GroupsAreSetters ==
    /\ {ImageKeys, ExposureKeys, NightKeys, BacklightKeys, BalanceKeys, EnhancementKeys, VideoKeys}
         \subseteq Seq(Setters)
    /\ Len(BacklightKeys) = 6 /\ Len(BalanceKeys) = 4 /\ Len(EnhancementKeys) = 8
    /\ Len(ExposureKeys) = 4
<1>1. Setters = (Direct \cup IniOnly \cup BalanceGains \cup
         {"sharpness", "exposure_mode", "gain_mode", "exposure_gain", "night_to_day", "light_brightness",
          "blc_region", "hlc", "hdr_level", "blc_strength", "hlc_level", "dark_boost_level",
          "white_blance_style", "dehaze", "spatial_denoise_level", "temporal_denoise_level",
          "dehaze_level"})
  BY DEF Setters, Settings, Direct, ImageDirect, EnhancementDirect, VideoDirect, IniOnly, BalanceGains
<1> HIDE DEF Setters
<1>2. {ImageKeys, ExposureKeys, NightKeys} \subseteq Seq(Setters)
  BY <1>1 DEF ImageKeys, ExposureKeys, NightKeys, Direct, ImageDirect, IniOnly
<1>3. {BacklightKeys, BalanceKeys, VideoKeys} \subseteq Seq(Setters)
  BY <1>1 DEF BacklightKeys, BalanceKeys, VideoKeys, Direct, VideoDirect, BalanceGains
<1>4. EnhancementKeys \in Seq(Setters)
  BY <1>1 DEF EnhancementKeys, Direct, EnhancementDirect, IniOnly
<1>5. /\ Len(BacklightKeys) = 6 /\ Len(BalanceKeys) = 4 /\ Len(EnhancementKeys) = 8
      /\ Len(ExposureKeys) = 4
  BY DEF BacklightKeys, BalanceKeys, EnhancementKeys, ExposureKeys
<1> QED BY <1>2, <1>3, <1>4, <1>5

\* The settings before and after the setter of k, as it is in a group.
Turned(s, t, k) ==
    /\ s \in IspStates /\ t \in IspStates /\ t.wdr = s.wdr /\ t.failing = s.failing
    /\ t = Apply(s, k, Param(s, k)) /\ Changes(s, t, {k}, Touched(k))

LEMMA TurnedLeaves ==
    ASSUME NEW s, NEW t, NEW k, Turned(s, t, k)
    PROVE  /\ \A g \in Settings : g # k => Param(t, g) = Param(s, g)
           /\ \A a \in Attributes : a \notin Touched(k) => t.hw[a] = s.hw[a]
  BY DEF Turned, Changes

\* From s to t by m setters of a group, with f[i] after the i-th of them.
Chain(f, s, t, keys, m) ==
    /\ f[0] = s /\ f[m] = t /\ \A i \in 0..m : f[i].wdr = t.wdr /\ f[i].failing = t.failing
    /\ \A i \in 1..m : Turned(f[i - 1], f[i], keys[i])

LEMMA GroupIsChain ==
    ASSUME NEW s \in IspStates, NEW keys \in Seq(Setters)
    PROVE  \E f : Chain(f, s, RunGroup(s, keys), keys, Len(keys))
<1> DEFINE m == Len(keys)
           last == RunGroup(s, keys)
<1>1. m \in Nat /\ \A i \in 1..m : keys[i] \in Setters /\ keys[i] \in Settings
  BY DEF Setters
<1>2. PICK f : Steps(f, s, keys) /\ last = f[m]
  BY <1>1, GroupSteps
<1>3. \A i \in 0..m : f[i] \in IspStates /\ f[i].wdr = s.wdr /\ f[i].failing = s.failing
  BY <1>2, SettersFollow DEF Follow
<1>4. ASSUME NEW i \in 1..m PROVE Turned(f[i - 1], f[i], keys[i])
  <2>1. f[i] = Apply(f[i - 1], keys[i], Param(f[i - 1], keys[i]))
    BY <1>2 DEF Steps
  <2>2. /\ f[i - 1] \in IspStates /\ f[i] \in IspStates
        /\ f[i].wdr = f[i - 1].wdr /\ f[i].failing = f[i - 1].failing
    BY <1>1, <1>3
  <2>3. Param(f[i - 1], keys[i]) \in Values
    BY <1>1, <2>2, ParamType
  <2>4. Changes(f[i - 1], Apply(f[i - 1], keys[i], Param(f[i - 1], keys[i])), {keys[i]}, Touched(keys[i]))
    BY <1>1, <2>2, <2>3, SetterChanges
  <2> QED BY <2>1, <2>2, <2>4 DEF Turned
<1>5. f[0] = s
  BY <1>2 DEF Steps
<1> HIDE DEF m, last
<1>6. \A i \in 0..m : f[i].wdr = last.wdr /\ f[i].failing = last.failing
  BY <1>1, <1>2, <1>3
<1>7. Chain(f, s, last, keys, m)
  BY <1>2, <1>4, <1>5, <1>6 DEF Chain
<1> QED BY <1>7 DEF m, last

\* Compensation that is on can be given a strength, and dark boost comes last.
Backlit(s) ==
    /\ s.wdr = "NORMAL" =>
        /\ Param(s, "blc_region") # "close" /\ Taken(s, {"blc_region", "blc_strength"}) =>
            Agrees(s, "blc_strength")
        /\ Param(s, "hlc") # "close" /\ Taken(s, {"hlc", "hlc_level"}) => Agrees(s, "hlc_level")
    /\ Taken(s, {"dark_boost_level"}) => s.hw["drc"] = "dark_boost_level"

LEMMA CompensationIsOn ==
    ASSUME NEW s, NEW t, NEW k \in {"blc_region", "hlc"}, Turned(s, t, k), s.wdr = "NORMAL",
           k \notin s.failing
    PROVE  Param(t, k) # "close" => t.hw[k] # "close"
<1> DEFINE v == Param(s, k)
           b == SetParam(s, k, v)
           shown == IF v = "close" THEN v ELSE "open"
           c == SdkWrite(b, k, k, shown)
<1>0. s \in IspStates /\ t = Apply(s, k, v)
  BY DEF Turned
<1>1. k \in Settings /\ k \in Attributes /\ {"blc_strength", "hlc_level"} \subseteq Attributes \ {k}
  BY DEF Settings, Attributes, IniOnly
<1>2. v \in Values /\ shown \in Values /\ "0" \in Values
  BY <1>0, <1>1, ParamType, WordsAreValues
<1>3. PICK a \in {"blc_strength", "hlc_level"} : t = Compensation(s, k, a, v)
  BY <1>0, SetterOf
<1>4. t = SdkWrite(c, k, a, "0")
  BY <1>3 DEF Compensation
<1> HIDE DEF v, shown
<1>5. Changes(s, b, {k}, {}) /\ Param(b, k) = v
  BY <1>0, <1>1, <1>2, SetParamChanges
<1> HIDE DEF b
<1>6. b \in IspStates /\ k \notin b.failing
  <2>1. b \in IspStates /\ b.failing = s.failing
    BY <1>5 DEF Changes
  <2> QED BY <2>1
<1>7. Changes(b, c, {k}, {k}) /\ Param(c, k) = Param(b, k) /\ c.hw[k] = shown
  <2>1. k \in Settings /\ k \in Attributes /\ shown \in Values
    BY <1>1, <1>2
  <2> HIDE DEF c
  <2>2. /\ Changes(b, c, {k}, {k}) /\ Param(c, k) = Param(b, k)
        /\ k \notin b.failing => c.hw[k] = shown
    BY <1>6, <2>1, SdkWriteChanges DEF c
  <2> QED BY <1>6, <2>2
<1> HIDE DEF c
<1>8. c \in IspStates
  BY <1>7 DEF Changes
<1>9. Changes(c, t, {k}, {a}) /\ Param(t, k) = Param(c, k)
  BY <1>1, <1>2, <1>4, <1>8, SdkWriteChanges
<1>10. Param(t, k) = v /\ t.hw[k] = shown
  BY <1>1, <1>5, <1>7, <1>9 DEF Changes
<1> QED BY <1>10 DEF shown

LEMMA StrengthIsSet ==
    ASSUME NEW s, NEW t, NEW k \in {"blc_strength", "hlc_level"}, Turned(s, t, k), s.wdr = "NORMAL",
           k \notin s.failing, s.hw[IF k = "hlc_level" THEN "hlc" ELSE "blc_region"] # "close"
    PROVE  Agrees(t, k)
<1> DEFINE v == Param(s, k)
           w == IF k = "hlc_level" THEN AtLeastOne(v) ELSE v
<1>0. s \in IspStates /\ t = Apply(s, k, v)
  BY DEF Turned
<1>1. k \in Settings \cap Attributes
  BY DEF Settings, Attributes, IniOnly
<1>2. v \in Values
  BY <1>0, <1>1, ParamType
<1>3. w \in Values
  BY <1>2, WordsAreValues DEF AtLeastOne
<1>4. t = Both(s, k, w)
  <2>1. CASE k = "hlc_level"
    <3>1. t = Strength(s, k, "hlc", AtLeastOne(v))
      BY <1>0, <2>1, SetterOf
    <3> QED BY <2>1, <3>1 DEF Strength
  <2>2. CASE k = "blc_strength"
    <3>1. t = Strength(s, k, "blc_region", v)
      BY <1>0, <2>2, SetterOf
    <3> QED BY <2>2, <3>1 DEF Strength
  <2> QED BY <2>1, <2>2
<1> HIDE DEF v, w
<1>5. Agrees(Both(s, k, w), k)
  BY <1>0, <1>1, <1>3, BothChanges
<1> QED BY <1>4, <1>5

LEMMA BacklightGroup ==
    ASSUME NEW s \in IspStates
    PROVE  Backlit(RunGroup(s, BacklightKeys))
<1> DEFINE last == RunGroup(s, BacklightKeys)
<1>1. PICK f : Chain(f, s, last, BacklightKeys, 6)
  BY GroupsAreSetters, GroupIsChain
<1> HIDE DEF last
<1>2. /\ BacklightKeys[1] = "blc_region" /\ BacklightKeys[2] = "hlc" /\ BacklightKeys[3] = "hdr_level"
      /\ BacklightKeys[4] = "blc_strength" /\ BacklightKeys[5] = "hlc_level"
      /\ BacklightKeys[6] = "dark_boost_level"
  BY DEF BacklightKeys
<1>3. f[6] = last /\ \A i \in 1..6 : Turned(f[i - 1], f[i], BacklightKeys[i])
  BY <1>1 DEF Chain
<1>4. /\ Turned(f[0], f[1], "blc_region") /\ Turned(f[1], f[2], "hlc") /\ Turned(f[2], f[3], "hdr_level")
      /\ Turned(f[3], f[4], "blc_strength") /\ Turned(f[4], f[5], "hlc_level")
      /\ Turned(f[5], f[6], "dark_boost_level")
  BY <1>2, <1>3
<1>5. \A i \in 0..6 : f[i] \in IspStates /\ f[i].wdr = last.wdr /\ f[i].failing = last.failing
  <2>1. \A i \in 0..6 : f[i].wdr = last.wdr /\ f[i].failing = last.failing
    BY <1>1 DEF Chain
  <2>2. {f[0], f[1], f[2], f[3], f[4], f[5], f[6]} \subseteq IspStates
    BY <1>4 DEF Turned
  <2> QED BY <2>1, <2>2
<1>6. ASSUME "dark_boost_level" \notin last.failing PROVE f[6].hw["drc"] = "dark_boost_level"
  <2>1. f[6] = Drc(f[5], "dark_boost_level", Param(f[5], "dark_boost_level"))
    BY <1>4, SetterOf DEF Turned
  <2>2. "drc" \in Attributes /\ "dark_boost_level" \in Settings /\ "dark_boost_level" \in Values
    BY WordsAreValues DEF Attributes, Settings, IniOnly
  <2> DEFINE b == SetParam(f[5], "dark_boost_level", Param(f[5], "dark_boost_level"))
  <2>3. f[6] = SdkWrite(b, "dark_boost_level", "drc", "dark_boost_level")
    BY <2>1 DEF Drc
  <2>4. Changes(f[5], b, {"dark_boost_level"}, {})
    BY <1>5, <2>2, ParamType, SetParamChanges
  <2>5. b \in IspStates /\ "dark_boost_level" \notin b.failing
    BY <1>5, <1>6, <2>4 DEF Changes
  <2> HIDE DEF b
  <2>6. SdkWrite(b, "dark_boost_level", "drc", "dark_boost_level").hw["drc"] = "dark_boost_level"
    BY <2>2, <2>5, SdkWriteChanges
  <2> QED BY <2>3, <2>6
<1>7. ASSUME last.wdr = "NORMAL", Param(f[6], "blc_region") # "close",
             Taken(last, {"blc_region", "blc_strength"})
      PROVE  Agrees(f[6], "blc_strength")
  <2>1. /\ "blc_region" \in Settings /\ "blc_region" \in Attributes
        /\ "blc_strength" \in Settings /\ "blc_strength" \in Attributes
    BY DEF Settings, Attributes, IniOnly
  <2>2. \A k \in {"hlc", "hdr_level", "blc_strength", "hlc_level", "dark_boost_level"} :
          "blc_region" \notin Touched(k) \cup {k}
    BY DEF Touched
  <2>3. \A k \in {"hlc_level", "dark_boost_level"} : "blc_strength" \notin Touched(k) \cup {k}
    BY DEF Touched
  <2>4. /\ Param(f[6], "blc_region") = Param(f[1], "blc_region")
        /\ f[3].hw["blc_region"] = f[1].hw["blc_region"]
    <3>1. /\ Param(f[2], "blc_region") = Param(f[1], "blc_region")
          /\ Param(f[3], "blc_region") = Param(f[2], "blc_region")
          /\ Param(f[4], "blc_region") = Param(f[3], "blc_region")
      BY <1>4, <2>1, <2>2, TurnedLeaves
    <3>2. /\ Param(f[5], "blc_region") = Param(f[4], "blc_region")
          /\ Param(f[6], "blc_region") = Param(f[5], "blc_region")
      BY <1>4, <2>1, <2>2, TurnedLeaves
    <3>3. /\ f[2].hw["blc_region"] = f[1].hw["blc_region"]
          /\ f[3].hw["blc_region"] = f[2].hw["blc_region"]
      BY <1>4, <2>1, <2>2, TurnedLeaves
    <3> QED BY <3>1, <3>2, <3>3
  <2>5. f[3].hw["blc_region"] # "close"
    <3>1. f[0].wdr = "NORMAL" /\ Param(f[1], "blc_region") # "close" /\ "blc_region" \notin f[0].failing
      BY <1>5, <1>7, <2>4 DEF Taken
    <3>2. f[1].hw["blc_region"] # "close"
      BY <1>4, <3>1, CompensationIsOn
    <3> QED BY <2>4, <3>2
  <2>6. Agrees(f[4], "blc_strength")
    <3>1. f[3].wdr = "NORMAL" /\ "blc_strength" \notin f[3].failing
      BY <1>5, <1>7 DEF Taken
    <3> QED BY <1>4, <2>5, <3>1, StrengthIsSet
  <2>7. /\ Param(f[5], "blc_strength") = Param(f[4], "blc_strength")
        /\ Param(f[6], "blc_strength") = Param(f[5], "blc_strength")
        /\ f[5].hw["blc_strength"] = f[4].hw["blc_strength"]
        /\ f[6].hw["blc_strength"] = f[5].hw["blc_strength"]
    BY <1>4, <2>1, <2>3, TurnedLeaves
  <2> QED BY <2>6, <2>7 DEF Agrees
<1>8. ASSUME last.wdr = "NORMAL", Param(f[6], "hlc") # "close", Taken(last, {"hlc", "hlc_level"})
      PROVE  Agrees(f[6], "hlc_level")
  <2>1. /\ "hlc" \in Settings /\ "hlc" \in Attributes
        /\ "hlc_level" \in Settings /\ "hlc_level" \in Attributes
    BY DEF Settings, Attributes, IniOnly
  <2>2. \A k \in {"hdr_level", "blc_strength", "hlc_level", "dark_boost_level"} :
          "hlc" \notin Touched(k) \cup {k}
    BY DEF Touched
  <2>3. "hlc_level" \notin Touched("dark_boost_level")
    BY DEF Touched
  <2>4. Param(f[6], "hlc") = Param(f[2], "hlc") /\ f[4].hw["hlc"] = f[2].hw["hlc"]
    <3>1. /\ Param(f[3], "hlc") = Param(f[2], "hlc")
          /\ Param(f[4], "hlc") = Param(f[3], "hlc")
          /\ Param(f[5], "hlc") = Param(f[4], "hlc")
          /\ Param(f[6], "hlc") = Param(f[5], "hlc")
      BY <1>4, <2>1, <2>2, TurnedLeaves
    <3>2. f[3].hw["hlc"] = f[2].hw["hlc"] /\ f[4].hw["hlc"] = f[3].hw["hlc"]
      BY <1>4, <2>1, <2>2, TurnedLeaves
    <3> QED BY <3>1, <3>2
  <2>5. f[4].hw["hlc"] # "close"
    <3>1. f[1].wdr = "NORMAL" /\ Param(f[2], "hlc") # "close" /\ "hlc" \notin f[1].failing
      BY <1>5, <1>8, <2>4 DEF Taken
    <3>2. f[2].hw["hlc"] # "close"
      BY <1>4, <3>1, CompensationIsOn
    <3> QED BY <2>4, <3>2
  <2>6. Agrees(f[5], "hlc_level")
    <3>1. f[4].wdr = "NORMAL" /\ "hlc_level" \notin f[4].failing
      BY <1>5, <1>8 DEF Taken
    <3> QED BY <1>4, <2>5, <3>1, StrengthIsSet
  <2>7. /\ Param(f[6], "hlc_level") = Param(f[5], "hlc_level")
        /\ f[6].hw["hlc_level"] = f[5].hw["hlc_level"]
    BY <1>4, <2>1, <2>3, TurnedLeaves
  <2> QED BY <2>6, <2>7 DEF Agrees
<1> QED BY <1>3, <1>6, <1>7, <1>8 DEF Backlit, Taken, last

\* The last setter of the exposure turns the manual gain off.
LEMMA ExposureGroup ==
    ASSUME NEW s \in IspStates
    PROVE  GainIsOff(RunGroup(s, ExposureKeys))
<1> DEFINE last == RunGroup(s, ExposureKeys)
           k == "exposure_gain"
<1>1. PICK f : Chain(f, s, last, ExposureKeys, 4)
  BY GroupsAreSetters, GroupIsChain
<1> HIDE DEF last
<1>2. f[4] = last /\ Turned(f[3], f[4], k) /\ f[3].failing = last.failing
  <2>1. ExposureKeys[4] = k
    BY DEF ExposureKeys
  <2> QED BY <1>1, <2>1 DEF Chain
<1>3. k \in Settings \cap Attributes /\ "gain_en" \in Attributes
  BY DEF Settings, Attributes, IniOnly
<1>4. ASSUME k \notin last.failing PROVE f[4].hw["gain_en"] = "off"
  <2> DEFINE b == Both(f[3], k, Param(f[3], k))
  <2>1. f[4] = SdkWrite(b, k, "gain_en", "off")
    <3>1. f[4] = Apply(f[3], k, Param(f[3], k))
      BY <1>2 DEF Turned
    <3> QED BY <3>1, SetterOf DEF ExposureGain
  <2>2. f[3] \in IspStates /\ Param(f[3], k) \in Values /\ "off" \in Values
    BY <1>2, <1>3, ParamType, WordsAreValues DEF Turned
  <2>3. Changes(f[3], b, {k}, {k})
    BY <1>3, <2>2, BothChanges
  <2> HIDE DEF b
  <2>4. b \in IspStates /\ k \notin b.failing
    BY <1>2, <1>4, <2>3 DEF Changes
  <2>5. SdkWrite(b, k, "gain_en", "off").hw["gain_en"] = "off"
    BY <1>3, <2>2, <2>4, SdkWriteChanges
  <2> QED BY <2>1, <2>5
<1> QED BY <1>2, <1>4 DEF GainIsOff, Taken, last

\* A manual white balance can be given its gains.
Balanced(s) ==
    /\ Param(s, "white_blance_style") # "autoWhiteBalance"
    /\ Taken(s, {"white_blance_style", "white_blance_red"})
    => Agrees(s, "white_blance_red")

LEMMA BalanceGroup ==
    ASSUME NEW s \in IspStates
    PROVE  Balanced(RunGroup(s, BalanceKeys))
<1> DEFINE last == RunGroup(s, BalanceKeys)
<1>1. PICK f : Chain(f, s, last, BalanceKeys, 4)
  BY GroupsAreSetters, GroupIsChain
<1> HIDE DEF last
<1>2. /\ BalanceKeys[1] = "white_blance_style" /\ BalanceKeys[2] = "white_blance_red"
      /\ BalanceKeys[3] = "white_blance_green" /\ BalanceKeys[4] = "white_blance_blue"
  BY DEF BalanceKeys
<1>3. f[4] = last /\ \A i \in 1..4 : Turned(f[i - 1], f[i], BalanceKeys[i])
  BY <1>1 DEF Chain
<1>4. /\ Turned(f[0], f[1], "white_blance_style") /\ Turned(f[1], f[2], "white_blance_red")
      /\ Turned(f[2], f[3], "white_blance_green") /\ Turned(f[3], f[4], "white_blance_blue")
  BY <1>2, <1>3
<1>5. /\ "white_blance_style" \in Settings \cap Attributes /\ "white_blance_red" \in Settings \cap Attributes
      /\ "white_blance_style" \in Getters
  BY DEF Settings, Attributes, IniOnly, BalanceGains, Getters
<1>6. \A i \in 0..4 : f[i].failing = last.failing
  BY <1>1 DEF Chain
<1>7. ASSUME "white_blance_style" \notin last.failing PROVE Agrees(f[1], "white_blance_style")
  <2>1. Param(f[0], "white_blance_style") \in Values /\ "white_blance_style" \notin f[0].failing
    <3>1. f[0].failing = last.failing
      BY <1>6
    <3>2. f[0] \in IspStates
      BY <1>4 DEF Turned
    <3> QED BY <1>5, <1>7, <3>1, <3>2, ParamType
  <2>2. f[1] = Both(f[0], "white_blance_style", Param(f[0], "white_blance_style"))
    <3>1. f[1] = Apply(f[0], "white_blance_style", Param(f[0], "white_blance_style"))
      BY <1>4 DEF Turned
    <3> QED BY <3>1, SetterOf
  <2> QED BY <1>4, <1>5, <2>1, <2>2, BothChanges DEF Turned
<1>8. \A k \in {"white_blance_green", "white_blance_blue"} :
        {"white_blance_style", "white_blance_red"} \cap (Touched(k) \cup {k}) = {}
  BY DEF Touched
<1>9. "white_blance_style" # "white_blance_red"
  OBVIOUS
<1>10. Param(f[4], "white_blance_style") = Param(f[1], "white_blance_style")
  <2>1. /\ Param(f[2], "white_blance_style") = Param(f[1], "white_blance_style")
        /\ Param(f[3], "white_blance_style") = Param(f[2], "white_blance_style")
        /\ Param(f[4], "white_blance_style") = Param(f[3], "white_blance_style")
    BY <1>4, <1>5, <1>8, <1>9, TurnedLeaves
  <2> QED BY <2>1
<1>11. ASSUME f[1].hw["white_blance_style"] # "autoWhiteBalance", "white_blance_red" \notin last.failing
       PROVE  Agrees(f[2], "white_blance_red")
  <2> DEFINE w == AtLeastOne(Param(f[1], "white_blance_red"))
  <2>1. f[2] = WhiteBalance(f[1], "white_blance_red", Param(f[1], "white_blance_red"))
    BY <1>4, SetterOf DEF Turned, BalanceGains
  <2>2. f[2] = Both(f[1], "white_blance_red", w)
    BY <1>11, <2>1 DEF WhiteBalance
  <2>3. w \in Values
    BY <1>4, <1>5, ParamType, WordsAreValues DEF AtLeastOne, Turned
  <2> HIDE DEF w
  <2>4. "white_blance_red" \notin f[1].failing
    BY <1>11, <1>6
  <2> QED BY <1>4, <1>5, <2>2, <2>3, <2>4, BothChanges DEF Turned
<1>12. Agrees(f[2], "white_blance_red") => Agrees(f[4], "white_blance_red")
  BY <1>4, <1>5, <1>8 DEF Turned, Changes, Agrees
<1> QED BY <1>3, <1>7, <1>10, <1>11, <1>12 DEF Balanced, Taken, Agrees, last

\* Without noise reduction the level is the neutral one.
Quiet(s) ==
    Param(s, "noise_reduce_mode") = "close" /\ Taken(s, {"spatial_denoise_level"}) => s.hw["ynr"] = "50"

LEMMA EnhancementGroup ==
    ASSUME NEW s \in IspStates
    PROVE  Quiet(RunGroup(s, EnhancementKeys))
<1> DEFINE last == RunGroup(s, EnhancementKeys)
<1>1. PICK f : Chain(f, s, last, EnhancementKeys, 8)
  BY GroupsAreSetters, GroupIsChain
<1> HIDE DEF last
<1>2. /\ EnhancementKeys[5] = "spatial_denoise_level" /\ EnhancementKeys[6] = "temporal_denoise_level"
      /\ EnhancementKeys[7] = "dehaze_level" /\ EnhancementKeys[8] = "ldch_level"
  BY DEF EnhancementKeys
<1>3. f[8] = last /\ \A i \in 1..8 : Turned(f[i - 1], f[i], EnhancementKeys[i])
  BY <1>1 DEF Chain
<1>4. /\ Turned(f[4], f[5], "spatial_denoise_level") /\ Turned(f[5], f[6], "temporal_denoise_level")
      /\ Turned(f[6], f[7], "dehaze_level") /\ Turned(f[7], f[8], "ldch_level")
  BY <1>2, <1>3
<1>5. /\ "noise_reduce_mode" \in Settings /\ "ynr" \in Attributes
      /\ "spatial_denoise_level" \in Settings
  BY DEF Settings, Attributes, IniOnly
<1>6. /\ \A k \in {"spatial_denoise_level", "temporal_denoise_level", "dehaze_level", "ldch_level"} :
            k # "noise_reduce_mode"
      /\ \A k \in {"temporal_denoise_level", "dehaze_level", "ldch_level"} : "ynr" \notin Touched(k)
  BY DEF Touched
<1>7. /\ Param(f[8], "noise_reduce_mode") = Param(f[4], "noise_reduce_mode")
      /\ f[8].hw["ynr"] = f[5].hw["ynr"]
  <2>1. /\ Param(f[5], "noise_reduce_mode") = Param(f[4], "noise_reduce_mode")
        /\ Param(f[6], "noise_reduce_mode") = Param(f[5], "noise_reduce_mode")
        /\ Param(f[7], "noise_reduce_mode") = Param(f[6], "noise_reduce_mode")
        /\ Param(f[8], "noise_reduce_mode") = Param(f[7], "noise_reduce_mode")
    BY <1>4, <1>5, <1>6, TurnedLeaves
  <2>2. /\ f[6].hw["ynr"] = f[5].hw["ynr"] /\ f[7].hw["ynr"] = f[6].hw["ynr"]
        /\ f[8].hw["ynr"] = f[7].hw["ynr"]
    BY <1>4, <1>5, <1>6, TurnedLeaves
  <2> QED BY <2>1, <2>2
<1>8. ASSUME Param(f[4], "noise_reduce_mode") = "close", "spatial_denoise_level" \notin last.failing
      PROVE  f[5].hw["ynr"] = "50"
  <2> DEFINE k == "spatial_denoise_level"
             b == SetParam(f[4], k, "50")
  <2>1. f[5] = Denoise(f[4], k, {"close", "3dnr"}, Param(f[4], k))
    BY <1>4, SetterOf DEF Turned
  <2>2. f[5] = SdkWrite(b, k, "ynr", "50")
    BY <1>8, <2>1 DEF Denoise
  <2>3. "50" \in Values
    BY WordsAreValues
  <2>4. Changes(f[4], b, {k}, {})
    BY <1>4, <1>5, <2>3, SetParamChanges DEF Turned
  <2>5. b \in IspStates /\ k \notin b.failing
    <3>1. f[4].failing = last.failing
      BY <1>1 DEF Chain
    <3> QED BY <1>8, <2>4, <3>1 DEF Changes
  <2> HIDE DEF b
  <2>6. SdkWrite(b, k, "ynr", "50").hw["ynr"] = "50"
    BY <1>5, <2>3, <2>5, SdkWriteChanges
  <2> QED BY <2>2, <2>6
<1> QED BY <1>3, <1>7, <1>8 DEF Quiet, Taken, last

\* The groups after the backlight leave what it has set, and so on.
LEMMA GroupsAreApart ==
    /\ \A j \in 1..Len(BalanceKeys) :
         BalanceKeys[j] \in BalanceGains \cup {"white_blance_style"}
    /\ \A j \in 1..Len(EnhancementKeys) :
         EnhancementKeys[j] \in
           EnhancementDirect \cup {"noise_reduce_mode", "dehaze", "spatial_denoise_level",
                                   "temporal_denoise_level", "dehaze_level", "ldch_level"}
    /\ \A j \in 1..Len(VideoKeys) : VideoKeys[j] \in VideoDirect
    /\ \A keys \in {NightKeys, BacklightKeys, BalanceKeys, EnhancementKeys, VideoKeys} :
         \A j \in 1..Len(keys) : keys[j] \notin {"exposure_mode", "gain_mode", "exposure_gain"}
<1>1. \A j \in 1..4 : BalanceKeys[j] \in BalanceGains \cup {"white_blance_style"}
  BY DEF BalanceKeys, BalanceGains
<1>2. \A j \in 1..8 :
        EnhancementKeys[j] \in
          EnhancementDirect \cup {"noise_reduce_mode", "dehaze", "spatial_denoise_level",
                                  "temporal_denoise_level", "dehaze_level", "ldch_level"}
  BY DEF EnhancementKeys, EnhancementDirect
<1>3. \A j \in 1..Len(VideoKeys) : VideoKeys[j] \in VideoDirect
  BY DEF VideoKeys, VideoDirect
<1>4. \A j \in 1..Len(NightKeys) : NightKeys[j] \notin {"exposure_mode", "gain_mode", "exposure_gain"}
  BY DEF NightKeys
<1>5. \A j \in 1..6 : BacklightKeys[j] \notin {"exposure_mode", "gain_mode", "exposure_gain"}
  BY DEF BacklightKeys
<1>6. \A k \in BalanceGains \cup EnhancementDirect \cup VideoDirect \cup
            {"white_blance_style", "noise_reduce_mode", "dehaze", "spatial_denoise_level",
             "temporal_denoise_level", "dehaze_level", "ldch_level"} :
        k \notin {"exposure_mode", "gain_mode", "exposure_gain"}
  BY DEF BalanceGains, EnhancementDirect, VideoDirect
<1> QED BY <1>1, <1>2, <1>3, <1>4, <1>5, <1>6, GroupsAreSetters

\* A group changes nothing that none of its setters touches.
LEMMA GroupLeaves ==
    ASSUME NEW s \in IspStates, NEW keys \in Seq(Setters), NEW K, NEW a \in Attributes,
           \A j \in 1..Len(keys) : keys[j] \in K, \A k \in K : a \notin Touched(k)
    PROVE  RunGroup(s, keys).hw[a] = s.hw[a]
  BY GroupFollows DEF Follow

LEMMA GroupLeavesParam ==
    ASSUME NEW s \in IspStates, NEW keys \in Seq(Setters), NEW K, NEW k \in Settings \ K,
           \A j \in 1..Len(keys) : keys[j] \in K
    PROVE  Param(RunGroup(s, keys), k) = Param(s, k)
  BY GroupFollows DEF Follow

LEMMA GainStaysOff ==
    ASSUME NEW s \in IspStates, GainIsOff(s),
           NEW keys \in {NightKeys, BacklightKeys, BalanceKeys, EnhancementKeys, VideoKeys}
    PROVE  GainIsOff(RunGroup(s, keys))
<1> DEFINE K == Settings \ {"exposure_mode", "gain_mode", "exposure_gain"}
<1>1. keys \in Seq(Setters) /\ \A j \in 1..Len(keys) : keys[j] \in K
  <2>1. keys \in Seq(Setters)
    BY GroupsAreSetters
  <2>2. ASSUME NEW j \in 1..Len(keys) PROVE keys[j] \in K
    <3>1. keys[j] \in Setters
      BY <2>1
    <3>2. Setters \subseteq Settings
      BY DEF Setters
    <3>3. keys[j] \notin {"exposure_mode", "gain_mode", "exposure_gain"}
      BY GroupsAreApart
    <3> QED BY <3>1, <3>2, <3>3
  <2> QED BY <2>1, <2>2
<1>2. "gain_en" \in Attributes /\ \A k \in K : "gain_en" \notin Touched(k)
  BY DEF Attributes, Touched, Settings, IniOnly, Direct, ImageDirect, EnhancementDirect, VideoDirect,
         BalanceGains
<1> HIDE DEF K
<1>3. RunGroup(s, keys).hw["gain_en"] = s.hw["gain_en"]
  BY <1>1, <1>2, GroupLeaves
<1>4. RunGroup(s, keys).failing = s.failing
  BY <1>1, GroupFollows DEF Follow
<1> QED BY <1>3, <1>4 DEF GainIsOff, Taken

LEMMA LaterGroupsLeave ==
    ASSUME NEW s \in IspStates
    PROVE  /\ \A keys \in {BalanceKeys, EnhancementKeys, VideoKeys} :
                Backlit(s) => Backlit(RunGroup(s, keys))
           /\ \A keys \in {EnhancementKeys, VideoKeys} : Balanced(s) => Balanced(RunGroup(s, keys))
           /\ Quiet(s) => Quiet(RunGroup(s, VideoKeys))
<1> DEFINE Enhancing ==
             EnhancementDirect \cup {"noise_reduce_mode", "dehaze", "spatial_denoise_level",
                                     "temporal_denoise_level", "dehaze_level", "ldch_level"}
           Late == Enhancing \cup VideoDirect
           AfterLight == BalanceGains \cup {"white_blance_style"} \cup Late
           light == {"blc_region", "blc_strength", "hlc", "hlc_level"}
           white == {"white_blance_style", "white_blance_red"}
<1>1. /\ \A k \in AfterLight : {"blc_strength", "hlc_level", "drc"} \cap Touched(k) = {}
      /\ light \cap AfterLight = {}
  BY DEF Touched, EnhancementDirect, VideoDirect, BalanceGains
<1>2. (\A k \in Late : "white_blance_red" \notin Touched(k)) /\ white \cap Late = {}
  BY DEF Touched, EnhancementDirect, VideoDirect
<1>3. (\A k \in VideoDirect : "ynr" \notin Touched(k)) /\ "noise_reduce_mode" \notin VideoDirect
  BY DEF Touched, VideoDirect
<1>4. /\ light \cup white \cup {"noise_reduce_mode"} \subseteq Settings
      /\ {"blc_strength", "hlc_level", "drc", "white_blance_red", "ynr"} \subseteq Attributes
  BY DEF Settings, Attributes, IniOnly, BalanceGains
<1>5. /\ \A keys \in {EnhancementKeys, VideoKeys} : \A j \in 1..Len(keys) : keys[j] \in Late
      /\ \A keys \in {BalanceKeys, EnhancementKeys, VideoKeys} : \A j \in 1..Len(keys) : keys[j] \in AfterLight
      /\ \A j \in 1..Len(VideoKeys) : VideoKeys[j] \in VideoDirect
  BY GroupsAreApart
<1>6. {BalanceKeys, EnhancementKeys, VideoKeys} \subseteq Seq(Setters)
  BY GroupsAreSetters
<1> HIDE DEF Late, AfterLight
<1>7. ASSUME NEW keys \in {BalanceKeys, EnhancementKeys, VideoKeys}, Backlit(s)
      PROVE  Backlit(RunGroup(s, keys))
  <2> DEFINE t == RunGroup(s, keys)
  <2>0. keys \in Seq(Setters) /\ \A j \in 1..Len(keys) : keys[j] \in AfterLight
    BY <1>5, <1>6
  <2>1. ASSUME NEW k \in light PROVE Param(t, k) = Param(s, k)
    <3>1. k \in Settings \ AfterLight
      BY <1>1, <1>4
    <3> QED BY <2>0, <3>1, GroupLeavesParam
  <2>2. ASSUME NEW a \in {"blc_strength", "hlc_level", "drc"} PROVE t.hw[a] = s.hw[a]
    <3>1. a \in Attributes /\ \A k \in AfterLight : a \notin Touched(k)
      BY <1>1, <1>4
    <3> QED BY <2>0, <3>1, GroupLeaves
  <2>3. t.wdr = s.wdr /\ t.failing = s.failing
    BY <1>6, GroupFollows DEF Follow
  <2> HIDE DEF t
  <2> QED BY <1>7, <2>1, <2>2, <2>3 DEF Backlit, Taken, Agrees, t
<1>8. ASSUME NEW keys \in {EnhancementKeys, VideoKeys}, Balanced(s)
      PROVE  Balanced(RunGroup(s, keys))
  <2> DEFINE t == RunGroup(s, keys)
  <2>0. keys \in Seq(Setters) /\ \A j \in 1..Len(keys) : keys[j] \in Late
    BY <1>5, <1>6
  <2>1. ASSUME NEW k \in white PROVE Param(t, k) = Param(s, k)
    <3>1. k \in Settings \ Late
      BY <1>2, <1>4
    <3> QED BY <2>0, <3>1, GroupLeavesParam
  <2>2. t.hw["white_blance_red"] = s.hw["white_blance_red"]
    BY <1>2, <1>4, <2>0, GroupLeaves
  <2>3. t.failing = s.failing
    BY <1>6, GroupFollows DEF Follow
  <2> HIDE DEF t
  <2> QED BY <1>8, <2>1, <2>2, <2>3 DEF Balanced, Taken, Agrees, t
<1>9. ASSUME Quiet(s) PROVE Quiet(RunGroup(s, VideoKeys))
  <2>1. Param(RunGroup(s, VideoKeys), "noise_reduce_mode") = Param(s, "noise_reduce_mode")
    BY <1>3, <1>4, <1>5, <1>6, GroupLeavesParam
  <2>2. RunGroup(s, VideoKeys).hw["ynr"] = s.hw["ynr"]
    BY <1>3, <1>4, <1>5, <1>6, GroupLeaves
  <2>3. RunGroup(s, VideoKeys).failing = s.failing
    BY <1>6, GroupFollows DEF Follow
  <2> QED BY <1>9, <2>1, <2>2, <2>3 DEF Quiet, Taken
<1> QED BY <1>7, <1>8, <1>9

\* Every setting with a getter has a setter in one of the groups.
InGroup(k, keys) == \E j \in 1..Len(keys) : keys[j] = k

LEMMA EveryGetterRestored ==
    ASSUME NEW g \in Getters
    PROVE  \E keys \in {ImageKeys, ExposureKeys, NightKeys, BalanceKeys, EnhancementKeys, VideoKeys} :
             InGroup(g, keys)
<1>1. CASE g \in ImageDirect \cup {"sharpness"}
  <2>1. /\ ImageKeys[1] = "fps" /\ ImageKeys[2] = "contrast" /\ ImageKeys[3] = "brightness"
        /\ ImageKeys[4] = "saturation" /\ ImageKeys[5] = "sharpness" /\ ImageKeys[6] = "hue"
        /\ Len(ImageKeys) = 6
    BY DEF ImageKeys
  <2>2. InGroup(g, ImageKeys)
    BY <1>1, <2>1 DEF ImageDirect, InGroup
  <2> QED BY <2>2
<1>2. CASE g \in {"exposure_mode", "exposure_time"}
  <2>1. /\ ExposureKeys[1] = "exposure_mode" /\ ExposureKeys[3] = "exposure_time"
        /\ Len(ExposureKeys) = 4
    BY DEF ExposureKeys
  <2>2. InGroup(g, ExposureKeys)
    BY <1>2, <2>1 DEF InGroup
  <2> QED BY <2>2
<1>3. CASE g = "night_to_day"
  <2>1. NightKeys[1] = "night_to_day" /\ Len(NightKeys) = 3
    BY DEF NightKeys
  <2>2. InGroup(g, NightKeys)
    BY <1>3, <2>1 DEF InGroup
  <2> QED BY <2>2
<1>4. CASE g = "white_blance_style"
  <2>1. BalanceKeys[1] = "white_blance_style" /\ Len(BalanceKeys) = 4
    BY DEF BalanceKeys
  <2>2. InGroup(g, BalanceKeys)
    BY <1>4, <2>1 DEF InGroup
  <2> QED BY <2>2
<1>5. CASE g \in {"dehaze", "gray_scale_mode", "distortion_correction", "ldch_level"}
  <2>1. /\ EnhancementKeys[2] = "dehaze" /\ EnhancementKeys[3] = "gray_scale_mode"
        /\ EnhancementKeys[4] = "distortion_correction" /\ EnhancementKeys[8] = "ldch_level"
        /\ Len(EnhancementKeys) = 8
    BY DEF EnhancementKeys
  <2>2. InGroup(g, EnhancementKeys)
    BY <1>5, <2>1 DEF InGroup
  <2> QED BY <2>2
<1>6. CASE g \in VideoDirect
  <2>1. /\ VideoKeys[1] = "power_line_frequency_mode" /\ VideoKeys[2] = "image_flip"
        /\ Len(VideoKeys) = 2
    BY DEF VideoKeys
  <2>2. InGroup(g, VideoKeys)
    BY <1>6, <2>1 DEF VideoDirect, InGroup
  <2> QED BY <2>2
<1>7. \/ g \in ImageDirect \cup VideoDirect
      \/ g \in {"sharpness", "exposure_mode", "exposure_time", "night_to_day", "white_blance_style",
                "dehaze", "gray_scale_mode", "distortion_correction", "ldch_level"}
  BY DEF Getters, Direct, EnhancementDirect
<1> QED BY <1>1, <1>2, <1>3, <1>4, <1>5, <1>6, <1>7

\* rk_isp_set_from_ini() brings the image processor to the parameters, whatever
\* it was at before, as far as it takes what is written.
LEMMA RestoreWorks ==
    ASSUME NEW s \in IspStates
    PROVE  /\ Restore(s) \in IspStates
           /\ \A g \in Getters : Tried(Restore(s), g)
           /\ DependentsInForce(Restore(s)) /\ GainIsOff(Restore(s))
<1> DEFINE groups == {ImageKeys, ExposureKeys, NightKeys, BacklightKeys, BalanceKeys, EnhancementKeys, VideoKeys}
           s1 == RunGroup(s, ImageKeys)
           s2 == RunGroup(s1, ExposureKeys)
           s3 == RunGroup(s2, NightKeys)
           s4 == RunGroup(s3, BacklightKeys)
           s5 == RunGroup(s4, BalanceKeys)
           s6 == RunGroup(s5, EnhancementKeys)
           s7 == RunGroup(s6, VideoKeys)
<1>1. Restore(s) = s7
  BY DEF Restore
<1>2. \A t \in IspStates, keys \in groups :
        /\ RunGroup(t, keys) \in IspStates
        /\ \A g \in Getters : Tried(t, g) \/ InGroup(g, keys) => Tried(RunGroup(t, keys), g)
  BY GroupsAreSetters, GroupFollows DEF Follow, InGroup
<1> HIDE DEF s1
<1>3. /\ s1 \in IspStates
      /\ \A g \in Getters : Tried(s, g) \/ InGroup(g, ImageKeys) => Tried(s1, g)
  BY <1>2 DEF s1
<1> HIDE DEF s2
<1>4. /\ s2 \in IspStates /\ GainIsOff(s2)
      /\ \A g \in Getters : Tried(s1, g) \/ InGroup(g, ExposureKeys) => Tried(s2, g)
  BY <1>2, <1>3, ExposureGroup DEF s2
<1> HIDE DEF s3
<1>5. /\ s3 \in IspStates /\ GainIsOff(s3)
      /\ \A g \in Getters : Tried(s2, g) \/ InGroup(g, NightKeys) => Tried(s3, g)
  BY <1>2, <1>4, GainStaysOff DEF s3
<1> HIDE DEF s4
<1>6. /\ s4 \in IspStates /\ GainIsOff(s4) /\ Backlit(s4)
      /\ \A g \in Getters : Tried(s3, g) => Tried(s4, g)
  BY <1>2, <1>5, BacklightGroup, GainStaysOff DEF s4
<1> HIDE DEF s5
<1>7. /\ s5 \in IspStates /\ GainIsOff(s5) /\ Backlit(s5) /\ Balanced(s5)
      /\ \A g \in Getters : Tried(s4, g) \/ InGroup(g, BalanceKeys) => Tried(s5, g)
  BY <1>2, <1>6, LaterGroupsLeave, BalanceGroup, GainStaysOff DEF s5
<1> HIDE DEF s6
<1>8. /\ s6 \in IspStates /\ GainIsOff(s6) /\ Backlit(s6) /\ Balanced(s6) /\ Quiet(s6)
      /\ \A g \in Getters : Tried(s5, g) \/ InGroup(g, EnhancementKeys) => Tried(s6, g)
  BY <1>2, <1>7, LaterGroupsLeave, EnhancementGroup, GainStaysOff DEF s6
<1> HIDE DEF s7
<1>9. /\ s7 \in IspStates /\ GainIsOff(s7) /\ Backlit(s7) /\ Balanced(s7) /\ Quiet(s7)
      /\ \A g \in Getters : Tried(s6, g) \/ InGroup(g, VideoKeys) => Tried(s7, g)
  BY <1>2, <1>8, LaterGroupsLeave, GainStaysOff DEF s7
<1>10. ASSUME NEW g \in Getters PROVE Tried(s7, g)
  <2>1. PICK keys \in {ImageKeys, ExposureKeys, NightKeys, BalanceKeys, EnhancementKeys, VideoKeys} :
          InGroup(g, keys)
    BY EveryGetterRestored
  <2>2. CASE keys = ImageKeys
    BY <1>3, <1>4, <1>5, <1>6, <1>7, <1>8, <1>9, <2>1, <2>2
  <2>3. CASE keys = ExposureKeys
    BY <1>4, <1>5, <1>6, <1>7, <1>8, <1>9, <2>1, <2>3
  <2>4. CASE keys = NightKeys
    BY <1>5, <1>6, <1>7, <1>8, <1>9, <2>1, <2>4
  <2>5. CASE keys = BalanceKeys
    BY <1>7, <1>8, <1>9, <2>1, <2>5
  <2>6. CASE keys = EnhancementKeys
    BY <1>8, <1>9, <2>1, <2>6
  <2>7. CASE keys = VideoKeys
    BY <1>9, <2>1, <2>7
  <2> QED BY <2>1, <2>2, <2>3, <2>4, <2>5, <2>6, <2>7
<1>11. DependentsInForce(s7)
  BY <1>9 DEF Backlit, Balanced, Quiet, Agrees, DependentsInForce
<1> QED BY <1>1, <1>9, <1>10, <1>11

-----------------------------------------------------------------------------

IspInv == varied \in ValueSets /\ IspTypeOK /\ GettersTrue

LEMMA AttributesTyped == Iq \in [Attributes -> Values]
  BY WordsAreValues DEF Iq

\* What a restart finds is typed, as is what a chosen mode leaves.
LEMMA FreshType ==
    ASSUME NEW s \in IspStates
    PROVE  Fresh(s) \in IspStates
  BY AttributesTyped DEF Fresh, IspStates

LEMMA IspStarts == IspInit => IspInv
<1> SUFFICES ASSUME NEW sets \in ValueSets,
                    NEW chosen, \A i \in 0..1 : \A k \in DOMAIN sets : chosen[i][k] \in sets[k],
                    IspInitWith(sets, chosen)
             PROVE  IspInv
  BY DEF IspInit
<1>1. \A k \in Settings : Default[k] \in Values
  BY WordsAreValues DEF Default
<1>2. \A k \in DOMAIN sets : sets[k] \subseteq Values
  BY DEF Values
<1>3. isp.ini \in [0..1 -> [Settings -> Values]]
  BY <1>1, <1>2 DEF IspInitWith
<1>4. isp \in IspStates
  BY <1>3, AttributesTyped, WordsAreValues DEF IspInitWith, IspStates
<1> QED BY <1>4 DEF IspInitWith, IspInv, IspTypeOK, GettersTrue

\* The settings at the start of a call.
LEMMA RefusingKeeps ==
    ASSUME isp \in IspStates, NEW f \in Refusals
    PROVE  /\ Refusing(f) \in IspStates /\ Refusing(f).hw = isp.hw
           /\ Refusing(f).scenario = isp.scenario /\ Refusing(f).wdr = isp.wdr
           /\ Refusing(f).refused = isp.refused /\ \A k : Param(Refusing(f), k) = Param(isp, k)
<1>1. f \subseteq Settings
  BY IspAssumption DEF Refusals
<1> QED BY <1>1 DEF Refusing, IspStates, Param

Restored == AllWritten(isp') /\ DependentsInForce(isp') /\ GainIsOff(isp')

LEMMA IspStep ==
    IspInv /\ [IspNext]_ispVars => IspInv' /\ (aiq' /\ Restoring => Restored)
<1> SUFFICES ASSUME IspInv, [IspNext]_ispVars
             PROVE  IspInv' /\ (aiq' /\ Restoring => Restored)
  OBVIOUS
<1>1. isp \in IspStates /\ varied \in ValueSets
  BY DEF IspInv, IspTypeOK
<1>2. varied' = varied
  BY DEF IspNext, ispVars
<1>3. ASSUME NEW s \in IspStates, aiq' = TRUE, isp' = Restore(s)
      PROVE  IspInv' /\ Restored
  <2>1. /\ isp' \in IspStates /\ (\A g \in Getters : Tried(isp', g))
        /\ DependentsInForce(isp') /\ GainIsOff(isp')
    BY <1>3, RestoreWorks
  <2>2. IspTypeOK' /\ GettersTrue' /\ AllWritten(isp')
    BY <1>3, <2>1 DEF IspTypeOK, GettersTrue, Agrees, Tried, AllWritten
  <2> QED BY <1>1, <1>2, <2>1, <2>2 DEF IspInv, Restored
<1>4. CASE Start
  <2>1. PICK f \in Refusals : isp' = Restore(Fresh(Refusing(f)))
    BY <1>4 DEF Start
  <2>2. Fresh(Refusing(f)) \in IspStates
    BY <1>1, RefusingKeeps, FreshType
  <2> QED BY <1>3, <1>4, <2>1, <2>2 DEF Start
<1>5. CASE TurnOff
  BY <1>1, <1>2, <1>5 DEF TurnOff, IspInv, IspTypeOK, GettersTrue
<1>6. ASSUME NEW k \in DOMAIN varied \ {"hdr"}, NEW v \in varied[k], Setter(k, v)
      PROVE  IspInv' /\ ~Restoring
  <2>1. k \in Setters /\ k \in Settings
    BY <1>1, IspAssumption DEF Setters
  <2>2. v \in Values
    BY <1>1 DEF Values
  <2>3. PICK f \in Refusals : aiq' = aiq /\ aiq /\ isp' = Apply(Refusing(f), k, v)
    BY <1>6 DEF Setter
  <2> DEFINE s == Refusing(f)
  <2>4. /\ s \in IspStates /\ s.hw = isp.hw /\ s.scenario = isp.scenario /\ s.wdr = isp.wdr
        /\ s.refused = isp.refused /\ \A g : Param(s, g) = Param(isp, g)
    BY <1>1, RefusingKeeps
  <2> HIDE DEF s
  <2>5. Changes(s, isp', {k}, Touched(k)) /\ (k \in Getters => Tried(isp', k))
    BY <2>1, <2>2, <2>3, <2>4, SetterChanges DEF s
  <2>6. ASSUME NEW g \in Getters, g \notin isp'.refused PROVE Agrees(isp', g)
    <3>1. CASE g # k
      <4>1. g \in Settings \ {k} /\ g \in Attributes \ Touched(k)
        BY <2>1, <3>1, OwnAttribute, GettersAre DEF Setters
      <4>2. g \notin isp.refused /\ Param(isp', g) = Param(isp, g) /\ isp'.hw[g] = isp.hw[g]
        BY <2>4, <2>5, <2>6, <4>1 DEF Changes
      <4>3. isp.hw[g] = Param(isp, g)
        BY <2>3, <4>2 DEF IspInv, GettersTrue
      <4> QED BY <4>2, <4>3 DEF Agrees
    <3> QED BY <2>5, <2>6, <3>1 DEF Tried
  <2>7. IspTypeOK' /\ GettersTrue'
    BY <2>3, <2>5, <2>6 DEF Changes, IspInv, IspTypeOK, GettersTrue, Agrees
  <2>8. ~Restoring
    BY <2>3, <2>4, <2>5 DEF Changes, Restoring
  <2> QED BY <1>1, <1>2, <2>7, <2>8 DEF IspInv
<1>7. ASSUME NEW name \in Scenarios, SetScenario(name) PROVE IspInv' /\ Restored
  <2>1. PICK f \in Refusals, hw \in {isp.hw, Iq} :
          isp' = Restore([Refusing(f) EXCEPT !.scenario = IF name = "normal" THEN 0 ELSE 1, !.hw = hw])
    BY <1>7 DEF SetScenario
  <2> DEFINE s == Refusing(f)
  <2>2. s \in IspStates
    BY <1>1, RefusingKeeps
  <2>3. isp' = Restore([s EXCEPT !.scenario = IF name = "normal" THEN 0 ELSE 1, !.hw = hw])
    BY <2>1
  <2> HIDE DEF s
  <2>4. [s EXCEPT !.scenario = IF name = "normal" THEN 0 ELSE 1, !.hw = hw] \in IspStates
    <3>1. hw \in [Attributes -> Values]
      BY <1>1, AttributesTyped DEF IspStates
    <3>2. (IF name = "normal" THEN 0 ELSE 1) \in 0..1
      OBVIOUS
    <3> QED BY <2>2, <3>1, <3>2 DEF IspStates
  <2>5. aiq' = TRUE
    BY <1>7 DEF SetScenario, IspInv, IspTypeOK
  <2> QED BY <1>3, <2>3, <2>4, <2>5
<1>8. ASSUME NEW v \in varied["hdr"], "hdr" \in DOMAIN varied, SetHdr(v) \/ SetHdrFails(v)
      PROVE  IspInv' /\ (aiq' => Restored)
  <2>1. "hdr" \in Settings /\ v \in Values
    BY <1>1, <1>8 DEF Settings, Values
  <2>2. ASSUME NEW r \in IspStates PROVE Fresh(SetParam(r, "hdr", v)) \in IspStates
    BY <2>1, SetParamChanges, FreshType DEF Changes
  <2>3. CASE SetHdr(v)
    <3>1. PICK f \in Refusals : isp' = Restore(Fresh(SetParam(Refusing(f), "hdr", v)))
      BY <2>3 DEF SetHdr
    <3>2. Fresh(SetParam(Refusing(f), "hdr", v)) \in IspStates
      BY <1>1, <2>2, RefusingKeeps
    <3>3. aiq' = TRUE
      BY <2>3 DEF SetHdr, IspInv, IspTypeOK
    <3> QED BY <1>3, <3>1, <3>2, <3>3
  <2>4. CASE SetHdrFails(v)
    <3> DEFINE s == Fresh(SetParam(isp, "hdr", v))
    <3>1. aiq' = FALSE /\ isp' = s
      BY <2>4 DEF SetHdrFails
    <3>2. s \in IspStates
      BY <1>1, <2>2
    <3> HIDE DEF s
    <3> QED BY <1>1, <1>2, <3>1, <3>2 DEF IspInv, IspTypeOK, GettersTrue
  <2> QED BY <1>8, <2>3, <2>4
<1>9. ASSUME UNCHANGED ispVars PROVE IspInv' /\ ~Restoring
  BY <1>9 DEF ispVars, IspInv, IspTypeOK, GettersTrue, Param, Restoring
<1>10. \/ Start \/ TurnOff \/ UNCHANGED ispVars
       \/ \E k \in DOMAIN varied \ {"hdr"} : \E v \in varied[k] : Setter(k, v)
       \/ \E name \in Scenarios : SetScenario(name)
       \/ "hdr" \in DOMAIN varied /\ \E v \in varied["hdr"] : SetHdr(v) \/ SetHdrFails(v)
  BY DEF IspNext, Turn
<1>11. CASE TurnOff
  BY <1>5, <1>11 DEF TurnOff
<1> QED BY <1>3, <1>4, <1>5, <1>6, <1>7, <1>8, <1>9, <1>10, <1>11

\* Setters, scenario switches and restarts of the image processor keep what the
\* getters tell and what it does in step wherever it took the last write, and
\* rk_isp_set_from_ini() writes every setting again and brings those that need
\* another one into force, whatever the parameters are and whichever writes are
\* refused on the way.
THEOREM SettingsInForce == IspSpec => ParametersInForce
<1>1. IspInv => IspTypeOK /\ GettersTrue
  BY DEF IspInv
<1>2. IspInv /\ [IspNext]_ispVars =>
        [aiq' /\ Restoring =>
           AllWritten(isp') /\ DependentsInForce(isp') /\ GainIsOff(isp')]_ispVars
  BY IspStep DEF Restored
<1>3. IspInv /\ [IspNext]_ispVars => IspInv'
  BY IspStep
<1> QED BY <1>1, <1>2, <1>3, IspStarts, PTL DEF IspSpec, ParametersInForce, RestoredWhole
=============================================================================
