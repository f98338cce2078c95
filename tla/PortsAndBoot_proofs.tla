------------------------- MODULE PortsAndBoot_proofs -------------------------
(***************************************************************************)
(* Proofs about what opens the serial ports.                               *)
(* BootSequence, for any number of ports and frames: what a verdict of the *)
(* validators says, which wires the loop finds, whose file it is.          *)
(* SerialIntake, for any number of threads and handles: which handle is    *)
(* open, and what a stopped listener may still do.                         *)
(***************************************************************************)
EXTENDS SerialIntake, BootSequence, TLAPS

-----------------------------------------------------------------------------
(* BootSequence: the inductive invariant.                                  *)

PortPlaces == {"idle", "opening", "write", "read", "closed", "dead"}
Counters ==
    [at : PortPlaces,
     sent : 0..Frames, received : Nat, failures : Nat, timeouts : Nat]
Verdicts == {"none", "PASSED", "FAILED", "PORT_UNAVAILABLE"}

\* The frames between a port's transmitter and its receiver, n of them sent: what
\* was heard is older than what is buffered, and that than what is on the wire.
InFlight(n, ahead, near, far) ==
    /\ \A i \in 1..Len(ahead) : ahead[i] \in 1..n
    /\ \A i \in 1..Len(far) : far[i] \in 1..n
    /\ \A i, j \in 1..Len(far) : i < j => far[i] < far[j]
    /\ \A i \in 1..Len(near) : near[i] = Garbled \/ near[i] \in 1..n
    /\ \A i, j \in 1..Len(near) :
        i < j /\ near[i] # Garbled /\ near[j] # Garbled => near[i] < near[j]
    /\ \A i \in 1..Len(near), j \in 1..Len(far) : near[i] # Garbled => near[i] < far[j]
    /\ \A i \in 1..Len(ahead), j \in 1..Len(near) : near[j] # Garbled => ahead[i] < near[j]
    /\ \A i \in 1..Len(ahead), j \in 1..Len(far) : ahead[i] < far[j]

Outstanding(w) == w.sent - (w.received + w.failures + w.timeouts)

\* What is known of a port with thread w, wire far, buffer near, sentences heard h and
\* verdict v.  As long as no read has failed, each has brought the frame just sent.
PortOK(p, w, far, near, h, v) ==
    /\ w.at \in {"idle", "opening", "write"} => Outstanding(w) = 0
    /\ w.at = "read" => Outstanding(w) = 1
    /\ w.at \in {"closed", "dead"} => Outstanding(w) \in {0, 1}
    /\ w.at \in {"idle", "opening"} => w.sent = 0 /\ far = <<>> /\ h = <<>>
    /\ v # "none" => w.at = "closed"
    /\ p \notin Talkers =>
        /\ Len(h) = w.received
        /\ w.at \in {"write", "read"} => InFlight(w.sent, h, near, far)
        /\ w.failures = 0 /\ w.timeouts = 0 => \A k \in 1..Len(h) : h[k] = k
        /\ v = "PASSED" => h = [k \in 1..Frames |-> k]

PortsOK ==
    /\ tester \in [Ports -> Counters] /\ verdict \in [Ports -> Verdicts]
    /\ wire \in [Ports -> Seq(Nat)] /\ inbox \in [Ports -> Seq(Nat)]
    /\ heard \in [Ports -> Seq(Nat)]
    /\ \A p \in Ports : PortOK(p, tester[p], wire[p], inbox[p], heard[p], verdict[p])
    /\ program # "serial" =>
        \A p \in Ports : /\ tester[p] = Idle /\ wire[p] = <<>> /\ inbox[p] = <<>>
                         /\ heard[p] = <<>> /\ verdict[p] = "none"

\* As long as no handshake has failed, every class before this one was answered.
NetworkOK ==
    /\ turn \in 1..(Len(Classes) + 1) /\ ether \subseteq 1..Len(Classes)
    /\ answered \subseteq 1..Len(Classes)
    /\ shaken \in {"no", "sent", "passed", "failed"} /\ suitePassed \in BOOLEAN
    /\ shaken # "no" => turn <= Len(Classes)
    /\ os = "posix" /\ shaken = "passed" => turn \in answered
    /\ os = "posix" /\ suitePassed => 1..(turn - 1) \subseteq answered
    /\ program # "network" =>
        turn = 1 /\ shaken = "no" /\ ether = {} /\ answered = {} /\ suitePassed

\* A file is generated only where none was found.
BridgeOK ==
    /\ file \in {"absent", "torn", "defaults", "edited", "invalid", "foreign"}
    /\ profile \in {"none", "fallback", "file"} /\ wires \subseteq Wires /\ model \in Models
    /\ at # "off" => program = "bridge"
    /\ at \in {"generate", "dump"} => found = "absent"
    /\ WiresAllOrNone

BoundsOK ==
    /\ program \in {"none", "serial", "network", "bridge"}
    /\ starts \in 0..MaxBoots /\ noise \in 0..MaxNoise /\ edits \in 0..MaxEdits

BootIInv == BoundsOK /\ PortsOK /\ NetworkOK /\ BridgeOK

-----------------------------------------------------------------------------
(* The serial audit.                                                       *)

LEMMA AppendFacts ==
    ASSUME NEW S, NEW s \in Seq(S), NEW e \in S
    PROVE  /\ Append(s, e) \in Seq(S) /\ Len(Append(s, e)) = Len(s) + 1 /\ Len(s) \in Nat
           /\ \A i \in 1..Len(s) : Append(s, e)[i] = s[i]
           /\ Append(s, e)[Len(s) + 1] = e
           /\ \A i \in 1..Len(Append(s, e)) :
                 \/ i \in 1..Len(s) /\ Append(s, e)[i] = s[i]
                 \/ i = Len(s) + 1 /\ Append(s, e)[i] = e
<1>1. /\ Append(s, e) \in Seq(S) /\ Len(Append(s, e)) = Len(s) + 1 /\ Len(s) \in Nat
      /\ \A i \in 1..Len(s) : Append(s, e)[i] = s[i]
      /\ Append(s, e)[Len(s) + 1] = e
  OBVIOUS
<1>2. \A i \in 1..(Len(s) + 1) : i \in 1..Len(s) \/ i = Len(s) + 1
  BY <1>1
<1> QED
  BY <1>1, <1>2

LEMMA TailFacts ==
    ASSUME NEW S, NEW s \in Seq(S), s # <<>>
    PROVE  /\ Len(s) \in Nat \ {0} /\ Head(s) = s[1] /\ Head(s) \in S /\ 1 \in 1..Len(s)
           /\ Tail(s) \in Seq(S) /\ Len(Tail(s)) = Len(s) - 1
           /\ \A i \in 1..Len(Tail(s)) :
                 Tail(s)[i] = s[i + 1] /\ i + 1 \in 1..Len(s) /\ 1 < i + 1 /\ i \in Nat
OBVIOUS

\* The counters of a port, and what a step makes of them: the place a, then the frames
\* sent, the replies received, the failures and the timeouts.
Tally(w, a, s, r, f, t) ==
    /\ w \in Counters /\ w.at = a
    /\ w.sent = s /\ w.received = r /\ w.failures = f /\ w.timeouts = t

LEMMA CounterFacts ==
    ASSUME NEW c \in Counters
    PROVE  /\ c.at \in PortPlaces /\ c.sent \in 0..Frames /\ c.received \in Nat
           /\ c.failures \in Nat /\ c.timeouts \in Nat
BY DEF Counters

LEMMA CountersKept ==
    ASSUME NEW c \in Counters, NEW a \in PortPlaces, NEW w,
           w = [c EXCEPT !.at = a]
    PROVE  /\ w \in Counters /\ w.at = a /\ w.sent = c.sent /\ w.received = c.received
           /\ w.failures = c.failures /\ w.timeouts = c.timeouts
           /\ Outstanding(w) = Outstanding(c)
BY DEF Counters, Outstanding

LEMMA CounterSent ==
    ASSUME NEW c \in Counters, NEW a \in PortPlaces, NEW w, c.sent + 1 \in 0..Frames,
           w = [c EXCEPT !.at = a, !.sent = c.sent + 1], Outstanding(c) = 0
    PROVE  Tally(w, a, c.sent + 1, c.received, c.failures, c.timeouts) /\ Outstanding(w) = 1
<1>1. /\ c.sent \in Int /\ c.received \in Nat /\ c.failures \in Nat /\ c.timeouts \in Nat
  BY CounterFacts
<1>2. /\ w \in Counters /\ w.at = a /\ w.sent = c.sent + 1 /\ w.received = c.received
      /\ w.failures = c.failures /\ w.timeouts = c.timeouts
  BY Zenon DEF Counters
<1> QED
  BY <1>1, <1>2 DEF Outstanding, Tally

LEMMA CounterReceived ==
    ASSUME NEW c \in Counters, NEW a \in PortPlaces, NEW w,
           w = [c EXCEPT !.at = a, !.received = c.received + 1], Outstanding(c) = 1
    PROVE  Tally(w, a, c.sent, c.received + 1, c.failures, c.timeouts) /\ Outstanding(w) = 0
<1>1. /\ c.sent \in Int /\ c.received \in Nat /\ c.failures \in Nat /\ c.timeouts \in Nat
      /\ c.received + 1 \in Nat
  BY CounterFacts
<1>2. /\ w \in Counters /\ w.at = a /\ w.sent = c.sent /\ w.received = c.received + 1
      /\ w.failures = c.failures /\ w.timeouts = c.timeouts
  BY <1>1, Zenon DEF Counters
<1> QED
  BY <1>1, <1>2 DEF Outstanding, Tally

LEMMA CounterFailed ==
    ASSUME NEW c \in Counters, NEW a \in PortPlaces, NEW w,
           w = [c EXCEPT !.at = a, !.failures = c.failures + 1], Outstanding(c) = 1
    PROVE  Tally(w, a, c.sent, c.received, c.failures + 1, c.timeouts) /\ Outstanding(w) = 0
<1>1. /\ c.sent \in Int /\ c.received \in Nat /\ c.failures \in Nat /\ c.timeouts \in Nat
      /\ c.failures + 1 \in Nat
  BY CounterFacts
<1>2. /\ w \in Counters /\ w.at = a /\ w.sent = c.sent /\ w.failures = c.failures + 1
      /\ w.received = c.received /\ w.timeouts = c.timeouts
  BY <1>1, Zenon DEF Counters
<1> QED
  BY <1>1, <1>2 DEF Outstanding, Tally

LEMMA CounterTimedOut ==
    ASSUME NEW c \in Counters, NEW a \in PortPlaces, NEW w,
           w = [c EXCEPT !.at = a, !.timeouts = c.timeouts + 1], Outstanding(c) = 1
    PROVE  Tally(w, a, c.sent, c.received, c.failures, c.timeouts + 1) /\ Outstanding(w) = 0
<1>1. /\ c.sent \in Int /\ c.received \in Nat /\ c.failures \in Nat /\ c.timeouts \in Nat
      /\ c.timeouts + 1 \in Nat
  BY CounterFacts
<1>2. /\ w \in Counters /\ w.at = a /\ w.sent = c.sent /\ w.timeouts = c.timeouts + 1
      /\ w.received = c.received /\ w.failures = c.failures
  BY <1>1, Zenon DEF Counters
<1> QED
  BY <1>1, <1>2 DEF Outstanding, Tally

\* A frame more is sent.
LEMMA SendInFlight ==
    ASSUME NEW n \in Nat, NEW h \in Seq(Nat), NEW near \in Seq(Nat), NEW far \in Seq(Nat),
           n < Frames, Frames \in Nat, InFlight(n, h, near, far)
    PROVE  InFlight(n + 1, h, near, Append(far, n + 1))
<1> DEFINE new == Append(far, n + 1)
<1>1. /\ new \in Seq(Nat) /\ Len(far) \in Nat /\ Len(new) = Len(far) + 1
      /\ \A i \in 1..Len(new) : \/ i \in 1..Len(far) /\ new[i] = far[i]
                                \/ i = Len(far) + 1 /\ new[i] = n + 1
  BY AppendFacts
<1> HIDE DEF new
<1>2. /\ \A i \in 1..Len(h) : h[i] \in 1..n
      /\ \A i \in 1..Len(far) : far[i] \in 1..n
      /\ \A i, j \in 1..Len(far) : i < j => far[i] < far[j]
      /\ \A i \in 1..Len(near) : near[i] = Garbled \/ near[i] \in 1..n
      /\ \A i \in 1..Len(near), j \in 1..Len(far) : near[i] # Garbled => near[i] < far[j]
      /\ \A i \in 1..Len(h), j \in 1..Len(far) : h[i] < far[j]
  BY DEF InFlight
<1>3. ASSUME NEW i \in 1..Len(new) PROVE new[i] \in 1..(n + 1)
  <2>1. CASE new[i] = n + 1
    BY <2>1
  <2>2. CASE i \in 1..Len(far) /\ new[i] = far[i]
    <3>1. far[i] \in 1..n
      BY <1>2, <2>2
    <3> QED
      BY <2>2, <3>1
  <2> QED
    BY <1>1, <2>1, <2>2
<1>4. ASSUME NEW i \in 1..Len(new), NEW j \in 1..Len(new), i < j PROVE new[i] < new[j]
  <2>1. i # Len(far) + 1
    BY <1>1, <1>4
  <2>2. i \in 1..Len(far) /\ new[i] = far[i] /\ far[i] \in 1..n
    BY <1>1, <1>2, <2>1
  <2>3. CASE j \in 1..Len(far) /\ new[j] = far[j]
    BY <1>2, <1>4, <2>2, <2>3
  <2>4. CASE new[j] = n + 1
    BY <2>2, <2>4
  <2> QED
    BY <1>1, <2>3, <2>4
<1>5. \A i \in 1..Len(near) : near[i] = Garbled \/ near[i] \in 1..(n + 1)
  BY <1>2
<1>6. ASSUME NEW i \in 1..Len(near), NEW j \in 1..Len(new), near[i] # Garbled
      PROVE  near[i] < new[j]
  <2>1. near[i] \in 1..n
    BY <1>2, <1>6
  <2>2. CASE j \in 1..Len(far) /\ new[j] = far[j]
    BY <1>2, <1>6, <2>2
  <2>3. CASE new[j] = n + 1
    BY <2>1, <2>3
  <2> QED
    BY <1>1, <2>2, <2>3
<1>7. ASSUME NEW i \in 1..Len(h), NEW j \in 1..Len(new) PROVE h[i] < new[j]
  <2>1. h[i] \in 1..n
    BY <1>2
  <2>2. CASE j \in 1..Len(far) /\ new[j] = far[j]
    BY <1>2, <2>2
  <2>3. CASE new[j] = n + 1
    BY <2>1, <2>3
  <2> QED
    BY <1>1, <2>2, <2>3
<1>8. \A i \in 1..Len(h) : h[i] \in 1..(n + 1)
  BY <1>2
<1>9. /\ \A i, j \in 1..Len(near) :
             i < j /\ near[i] # Garbled /\ near[j] # Garbled => near[i] < near[j]
      /\ \A i \in 1..Len(h), j \in 1..Len(near) : near[j] # Garbled => h[i] < near[j]
  BY DEF InFlight
<1> QED
  BY <1>3, <1>4, <1>5, <1>6, <1>7, <1>8, <1>9 DEF InFlight, new

\* The oldest frame on the wire is lost, or arrives, whole or spoilt.
LEMMA WireInFlight ==
    ASSUME NEW n \in Nat, NEW h \in Seq(Nat), NEW near \in Seq(Nat), NEW far \in Seq(Nat),
           far # <<>>, Frames \in Nat, InFlight(n, h, near, far)
    PROVE  /\ InFlight(n, h, near, Tail(far))
           /\ InFlight(n, h, Append(near, Head(far)), Tail(far))
           /\ InFlight(n, h, Append(near, Garbled), Tail(far))
<1> DEFINE rest == Tail(far)
<1>1. /\ Head(far) = far[1] /\ Head(far) \in Nat /\ 1 \in 1..Len(far)
      /\ \A i \in 1..Len(rest) : rest[i] = far[i + 1] /\ i + 1 \in 1..Len(far) /\ 1 < i + 1 /\ i \in Nat
  BY TailFacts
<1> HIDE DEF rest
<1>2. /\ \A i \in 1..Len(h) : h[i] \in 1..n
      /\ \A i \in 1..Len(far) : far[i] \in 1..n
      /\ \A i, j \in 1..Len(far) : i < j => far[i] < far[j]
      /\ \A i \in 1..Len(near) : near[i] = Garbled \/ near[i] \in 1..n
      /\ \A i, j \in 1..Len(near) :
             i < j /\ near[i] # Garbled /\ near[j] # Garbled => near[i] < near[j]
      /\ \A i \in 1..Len(near), j \in 1..Len(far) : near[i] # Garbled => near[i] < far[j]
      /\ \A i \in 1..Len(h), j \in 1..Len(near) : near[j] # Garbled => h[i] < near[j]
      /\ \A i \in 1..Len(h), j \in 1..Len(far) : h[i] < far[j]
  BY DEF InFlight
<1>3. /\ \A i \in 1..Len(rest) : rest[i] \in 1..n
      /\ \A i, j \in 1..Len(rest) : i < j => rest[i] < rest[j]
      /\ \A i \in 1..Len(h), j \in 1..Len(rest) : h[i] < rest[j]
      /\ \A i \in 1..Len(near), j \in 1..Len(rest) : near[i] # Garbled => near[i] < rest[j]
      /\ \A j \in 1..Len(rest) : Head(far) < rest[j]
  <2>1. \A i, j \in 1..Len(rest) : i < j => rest[i] < rest[j]
    <3> SUFFICES ASSUME NEW i \in 1..Len(rest), NEW j \in 1..Len(rest), i < j
                 PROVE  rest[i] < rest[j]
      OBVIOUS
    <3>1. i + 1 < j + 1
      BY <1>1
    <3> QED
      BY <1>1, <1>2, <3>1
  <2> QED
    BY <1>1, <1>2, <2>1
<1>4. InFlight(n, h, near, rest)
  BY <1>2, <1>3 DEF InFlight
<1>5. ASSUME NEW e \in Nat, e \in {Head(far), Garbled}
      PROVE  InFlight(n, h, Append(near, e), rest)
  <2> DEFINE new == Append(near, e)
  <2>1. /\ new \in Seq(Nat) /\ Len(near) \in Nat /\ Len(new) = Len(near) + 1
        /\ \A i \in 1..Len(new) : \/ i \in 1..Len(near) /\ new[i] = near[i]
                                  \/ i = Len(near) + 1 /\ new[i] = e
    BY <1>5, AppendFacts
  <2> HIDE DEF new
  <2>2. e = Garbled \/ (e = far[1] /\ e \in 1..n)
    BY <1>1, <1>2, <1>5
  <2>3. \A i \in 1..Len(new) : new[i] = Garbled \/ new[i] \in 1..n
    BY <1>2, <2>1, <2>2
  <2>4. ASSUME NEW i \in 1..Len(new), NEW j \in 1..Len(new), i < j,
               new[i] # Garbled, new[j] # Garbled
        PROVE  new[i] < new[j]
    <3>0. i # Len(near) + 1
      BY <2>1, <2>4
    <3>1. i \in 1..Len(near) /\ new[i] = near[i]
      BY <2>1, <3>0
    <3>2. CASE j \in 1..Len(near) /\ new[j] = near[j]
      BY <1>2, <2>4, <3>1, <3>2
    <3>3. CASE new[j] = e
      BY <1>1, <1>2, <2>2, <2>4, <3>1, <3>3
    <3> QED
      BY <2>1, <3>2, <3>3
  <2>5. ASSUME NEW i \in 1..Len(new), NEW j \in 1..Len(rest), new[i] # Garbled
        PROVE  new[i] < rest[j]
    BY <1>1, <1>3, <2>1, <2>2, <2>5
  <2>6. ASSUME NEW i \in 1..Len(h), NEW j \in 1..Len(new), new[j] # Garbled
        PROVE  h[i] < new[j]
    BY <1>1, <1>2, <2>1, <2>2, <2>6
  <2>7. InFlight(n, h, new, rest)
    BY <1>2, <1>3, <2>3, <2>4, <2>5, <2>6 DEF InFlight
  <2> QED
    BY <2>7 DEF new
<1>6. Garbled \in Nat
  BY DEF Garbled
<1> QED
  BY <1>1, <1>4, <1>5, <1>6 DEF rest

\* The oldest sentence in the buffer is read: dropped, or heard.
LEMMA ReadInFlight ==
    ASSUME NEW n \in Nat, NEW h \in Seq(Nat), NEW near \in Seq(Nat), NEW far \in Seq(Nat),
           near # <<>>, InFlight(n, h, near, far)
    PROVE  /\ InFlight(n, h, Tail(near), far)
           /\ Head(near) # Garbled => InFlight(n, Append(h, Head(near)), Tail(near), far)
<1> DEFINE rest == Tail(near)
           x == Head(near)
<1>1. /\ x = near[1] /\ x \in Nat /\ 1 \in 1..Len(near)
      /\ \A i \in 1..Len(rest) : rest[i] = near[i + 1] /\ i + 1 \in 1..Len(near) /\ 1 < i + 1 /\ i \in Nat
  BY TailFacts
<1> HIDE DEF rest, x
<1>2. /\ \A i \in 1..Len(h) : h[i] \in 1..n
      /\ \A i \in 1..Len(far) : far[i] \in 1..n
      /\ \A i, j \in 1..Len(far) : i < j => far[i] < far[j]
      /\ \A i \in 1..Len(near) : near[i] = Garbled \/ near[i] \in 1..n
      /\ \A i, j \in 1..Len(near) :
             i < j /\ near[i] # Garbled /\ near[j] # Garbled => near[i] < near[j]
      /\ \A i \in 1..Len(near), j \in 1..Len(far) : near[i] # Garbled => near[i] < far[j]
      /\ \A i \in 1..Len(h), j \in 1..Len(near) : near[j] # Garbled => h[i] < near[j]
      /\ \A i \in 1..Len(h), j \in 1..Len(far) : h[i] < far[j]
  BY DEF InFlight
<1>3. /\ \A i \in 1..Len(rest) : rest[i] = Garbled \/ rest[i] \in 1..n
      /\ \A i \in 1..Len(rest), j \in 1..Len(far) : rest[i] # Garbled => rest[i] < far[j]
      /\ \A i \in 1..Len(h), j \in 1..Len(rest) : rest[j] # Garbled => h[i] < rest[j]
      /\ x # Garbled => \A j \in 1..Len(rest) : rest[j] # Garbled => x < rest[j]
  BY <1>1, <1>2
<1>4. ASSUME NEW i \in 1..Len(rest), NEW j \in 1..Len(rest), i < j,
             rest[i] # Garbled, rest[j] # Garbled
      PROVE  rest[i] < rest[j]
  <2>1. i + 1 < j + 1
    BY <1>1, <1>4
  <2> QED
    BY <1>1, <1>2, <1>4, <2>1
<1>5. InFlight(n, h, rest, far)
  BY <1>2, <1>3, <1>4 DEF InFlight
<1>6. ASSUME x # Garbled PROVE InFlight(n, Append(h, x), rest, far)
  <2> DEFINE new == Append(h, x)
  <2>1. \A i \in 1..Len(new) : \/ i \in 1..Len(h) /\ new[i] = h[i]
                               \/ i = Len(h) + 1 /\ new[i] = x
    BY <1>1, AppendFacts
  <2> HIDE DEF new
  <2>2. \A j \in 1..Len(far) : x < far[j]
    BY <1>1, <1>2, <1>6
  <2>3. \A i \in 1..Len(new), j \in 1..Len(far) : new[i] < far[j]
    BY <1>2, <2>1, <2>2
  <2>4. \A i \in 1..Len(new), j \in 1..Len(rest) : rest[j] # Garbled => new[i] < rest[j]
    BY <1>3, <1>6, <2>1
  <2>5. x \in 1..n
    BY <1>1, <1>2, <1>6
  <2>6. \A i \in 1..Len(new) : new[i] \in 1..n
    BY <1>2, <2>1, <2>5
  <2> QED
    BY <1>2, <1>3, <1>4, <2>3, <2>4, <2>6 DEF InFlight, new
<1> QED
  BY <1>5, <1>6 DEF rest, x

\* What concerns one port leaves the others as they were.
LEMMA OnePort ==
    ASSUME PortsOK, NEW p \in Ports, program = "serial", program' = program,
           \A q \in Ports \ {p} :
               /\ tester'[q] = tester[q] /\ wire'[q] = wire[q] /\ inbox'[q] = inbox[q]
               /\ heard'[q] = heard[q] /\ verdict'[q] = verdict[q],
           tester' \in [Ports -> Counters], verdict' \in [Ports -> Verdicts],
           wire' \in [Ports -> Seq(Nat)], inbox' \in [Ports -> Seq(Nat)],
           heard' \in [Ports -> Seq(Nat)],
           PortOK(p, tester'[p], wire'[p], inbox'[p], heard'[p], verdict'[p])
    PROVE  PortsOK'
<1>1. ASSUME NEW q \in Ports
      PROVE  PortOK(q, tester'[q], wire'[q], inbox'[q], heard'[q], verdict'[q])
  <2>1. CASE q = p
    BY <2>1
  <2>2. CASE q # p
    BY <2>2 DEF PortsOK
  <2> QED
    BY <2>1, <2>2
<1> QED
  BY <1>1 DEF PortsOK

\* What is known of a port, unpacked.
LEMMA PortFacts ==
    ASSUME BootConstants, PortsOK, NEW p \in Ports
    PROVE  /\ tester[p] \in Counters /\ verdict[p] \in Verdicts
           /\ wire[p] \in Seq(Nat) /\ inbox[p] \in Seq(Nat) /\ heard[p] \in Seq(Nat)
           /\ PortOK(p, tester[p], wire[p], inbox[p], heard[p], verdict[p])
           /\ Frames \in Nat \ {0} /\ Garbled \in Nat
           /\ tester[p].at # "idle" => program = "serial"
BY DEF PortsOK, BootConstants, Garbled, Idle

LEMMA OpenPortStep ==
    ASSUME BootConstants, PortsOK, NEW p \in Ports, OpenTestPort(p)
    PROVE  PortsOK'
<1> DEFINE w == [tester[p] EXCEPT !.at = "write"]
<1>1. /\ tester[p] \in Counters /\ verdict[p] \in Verdicts /\ wire[p] \in Seq(Nat)
      /\ heard[p] \in Seq(Nat)
      /\ PortOK(p, tester[p], wire[p], inbox[p], heard[p], verdict[p])
  BY PortFacts
<1>2. /\ program = "serial" /\ program' = program /\ tester[p].at = "opening"
      /\ tester' = [tester EXCEPT ![p] = w] /\ inbox' = [inbox EXCEPT ![p] = <<>>]
      /\ wire' = wire /\ heard' = heard /\ verdict' = verdict
  BY DEF OpenTestPort
<1>3. /\ w \in Counters /\ w.at = "write" /\ w.sent = tester[p].sent
      /\ w.received = tester[p].received /\ w.failures = tester[p].failures
      /\ w.timeouts = tester[p].timeouts /\ Outstanding(w) = Outstanding(tester[p])
  BY <1>1, CountersKept DEF PortPlaces
<1>4. /\ Outstanding(w) = 0 /\ w.sent = 0 /\ wire[p] = <<>> /\ heard[p] = <<>>
      /\ verdict[p] = "none"
  BY <1>1, <1>2, <1>3 DEF PortOK
<1>5. <<>> \in Seq(Nat) /\ Len(<<>>) = 0
  OBVIOUS
<1>6. InFlight(w.sent, <<>>, <<>>, <<>>)
  BY <1>5 DEF InFlight
<1> HIDE DEF w
<1>7. PortOK(p, w, <<>>, <<>>, <<>>, "none")
  <2>1. Len(<<>>) = w.received
    <3>1. /\ tester[p].sent = 0 /\ tester[p].received \in Nat /\ tester[p].failures \in Nat
          /\ tester[p].timeouts \in Nat /\ Outstanding(tester[p]) = 0
      BY <1>1, <1>3, <1>4, CounterFacts
    <3> QED
      BY <1>3, <1>5, <3>1 DEF Outstanding
  <2> QED
    BY <1>3, <1>4, <1>5, <1>6, <2>1 DEF PortOK
<1>8. /\ tester' \in [Ports -> Counters] /\ inbox' \in [Ports -> Seq(Nat)]
      /\ tester'[p] = w /\ inbox'[p] = <<>>
      /\ \A q \in Ports \ {p} : tester'[q] = tester[q] /\ inbox'[q] = inbox[q]
  BY <1>2, <1>3, <1>5 DEF PortsOK
<1>9. PortOK(p, tester'[p], wire'[p], inbox'[p], heard'[p], verdict'[p])
  BY <1>2, <1>4, <1>7, <1>8
<1> QED
  BY <1>2, <1>8, <1>9, OnePort DEF PortsOK

LEMMA WriteFrameStep ==
    ASSUME BootConstants, PortsOK, NEW p \in Ports, WriteFrame(p)
    PROVE  PortsOK'
<1> DEFINE n == tester[p].sent
           w == [tester[p] EXCEPT !.at = "read", !.sent = n + 1]
           far == IF p \in Talkers THEN wire[p] ELSE Append(wire[p], n + 1)
<1>1. /\ tester[p] \in Counters /\ verdict[p] \in Verdicts /\ wire[p] \in Seq(Nat)
      /\ heard[p] \in Seq(Nat) /\ inbox[p] \in Seq(Nat) /\ Frames \in Nat \ {0}
      /\ PortOK(p, tester[p], wire[p], inbox[p], heard[p], verdict[p])
  BY PortFacts
<1>2. /\ program' = program /\ tester[p].at = "write" /\ n < Frames /\ n \in 0..Frames
      /\ tester' = [tester EXCEPT ![p] = w]
      /\ wire' = [wire EXCEPT ![p] = far]
      /\ inbox' = inbox /\ heard' = heard /\ verdict' = verdict
  BY <1>1 DEF WriteFrame, PortsOK, Counters
<1>4. far \in Seq(Nat)
  BY <1>1, <1>2
<1>5. /\ program = "serial" /\ verdict[p] = "none" /\ Outstanding(tester[p]) = 0
  BY <1>1, <1>2, PortFacts DEF PortOK
<1>6. /\ w \in Counters /\ w.at = "read" /\ w.sent = n + 1
      /\ w.received = tester[p].received /\ w.failures = tester[p].failures
      /\ w.timeouts = tester[p].timeouts /\ Outstanding(w) = 1
  <2>1. n + 1 \in 0..Frames /\ "read" \in PortPlaces
    BY <1>1, <1>2 DEF PortPlaces
  <2>2. w = [tester[p] EXCEPT !.at = "read", !.sent = tester[p].sent + 1]
    OBVIOUS
  <2> HIDE DEF w
  <2>3. Tally(w, "read", tester[p].sent + 1, tester[p].received, tester[p].failures, tester[p].timeouts) /\ Outstanding(w) = 1
    BY <1>1, <1>5, <2>1, <2>2, CounterSent
  <2> QED
    BY <2>3 DEF Tally
<1>7. p \notin Talkers => InFlight(n + 1, heard[p], inbox[p], far)
  BY <1>1, <1>2, SendInFlight DEF PortOK
<1>8. PortOK(p, w, far, inbox[p], heard[p], verdict[p])
  <2>1. p \notin Talkers => InFlight(w.sent, heard[p], inbox[p], far)
    BY <1>6, <1>7
  <2>2. p \notin Talkers /\ w.failures = 0 /\ w.timeouts = 0 =>
            \A k \in 1..Len(heard[p]) : heard[p][k] = k
    BY <1>1, <1>6 DEF PortOK
  <2>3. p \notin Talkers => Len(heard[p]) = w.received
    BY <1>1, <1>6 DEF PortOK
  <2> HIDE DEF w, far, n
  <2> QED
    BY <1>5, <1>6, <2>1, <2>2, <2>3 DEF PortOK
<1> HIDE DEF w, far, n
<1>9. /\ tester' \in [Ports -> Counters] /\ wire' \in [Ports -> Seq(Nat)]
      /\ tester'[p] = w /\ wire'[p] = far
      /\ \A q \in Ports \ {p} : tester'[q] = tester[q] /\ wire'[q] = wire[q]
  BY <1>2, <1>4, <1>6 DEF PortsOK
<1>10. PortOK(p, tester'[p], wire'[p], inbox'[p], heard'[p], verdict'[p])
  BY <1>2, <1>8, <1>9
<1> QED
  BY <1>2, <1>5, <1>9, <1>10, OnePort DEF PortsOK

\* If every read so far has brought its frame, so does the next that brings one.
LEMMA NextIsHeard ==
    ASSUME NEW n \in Nat, NEW h \in Seq(Nat), NEW near \in Seq(Nat), NEW far \in Seq(Nat),
           near # <<>>, InFlight(n, h, near, far), Head(near) # Garbled, n = Len(h) + 1,
           \A k \in 1..Len(h) : h[k] = k
    PROVE  Head(near) = n
<1>1. Head(near) = near[1] /\ 1 \in 1..Len(near)
  BY TailFacts
<1>2. Head(near) \in 1..n
  BY <1>1 DEF InFlight
<1>3. CASE Len(h) = 0
  BY <1>2, <1>3
<1>4. CASE Len(h) # 0
  <2>1. Len(h) \in 1..Len(h) /\ h[Len(h)] = Len(h)
    BY <1>4
  <2>2. h[Len(h)] < Head(near)
    BY <1>1, <2>1 DEF InFlight
  <2> QED
    BY <1>2, <2>1, <2>2
<1> QED
  BY <1>3, <1>4

LEMMA ReadFrameStep ==
    ASSUME BootConstants, PortsOK, NEW p \in Ports, ReadFrame(p)
    PROVE  PortsOK'
<1> DEFINE f == Head(inbox[p])
           rest == Tail(inbox[p])
           new == Append(heard[p], f)
<1>1. /\ tester[p] \in Counters /\ verdict[p] \in Verdicts /\ wire[p] \in Seq(Nat)
      /\ heard[p] \in Seq(Nat) /\ inbox[p] \in Seq(Nat) /\ Frames \in Nat \ {0}
      /\ PortOK(p, tester[p], wire[p], inbox[p], heard[p], verdict[p])
  BY PortFacts
<1>2. /\ program' = program /\ tester[p].at = "read" /\ inbox[p] # <<>>
      /\ inbox' = [inbox EXCEPT ![p] = rest] /\ wire' = wire /\ verdict' = verdict
  BY DEF ReadFrame
<1>3. /\ program = "serial" /\ verdict[p] = "none" /\ Outstanding(tester[p]) = 1
      /\ tester[p].sent \in Nat
  <2>1. tester[p].sent \in 0..Frames
    BY <1>1, CounterFacts
  <2>2. tester[p].sent \in Nat
    BY <1>1, <2>1
  <2> QED
    BY <1>1, <1>2, <2>2, PortFacts DEF PortOK
<1>4. rest \in Seq(Nat) /\ f \in Nat
  BY <1>1, <1>2, TailFacts
<1>5. inbox' \in [Ports -> Seq(Nat)] /\ inbox'[p] = rest
      /\ \A q \in Ports \ {p} : inbox'[q] = inbox[q]
  BY <1>2, <1>4 DEF PortsOK
<1>6. CASE f = Garbled
  <2> DEFINE w == [tester[p] EXCEPT !.at = "write", !.failures = tester[p].failures + 1]
  <2>1. tester' = [tester EXCEPT ![p] = w] /\ heard' = heard
    BY <1>6 DEF ReadFrame
  <2>2. /\ w \in Counters /\ w.at = "write" /\ w.sent = tester[p].sent
        /\ w.received = tester[p].received /\ w.failures = tester[p].failures + 1
        /\ w.timeouts = tester[p].timeouts /\ Outstanding(w) = 0
    <3>1. w = [tester[p] EXCEPT !.at = "write", !.failures = tester[p].failures + 1]
      OBVIOUS
    <3>2. "write" \in PortPlaces
      BY DEF PortPlaces
    <3> HIDE DEF w, f, rest
    <3>3. Tally(w, "write", tester[p].sent, tester[p].received, tester[p].failures + 1, tester[p].timeouts) /\ Outstanding(w) = 0
      BY <1>1, <1>3, <3>1, <3>2, CounterFailed
    <3> QED
      BY <3>3 DEF Tally
  <2>3. w.failures # 0
    BY <1>1, <2>2, CounterFacts
  <2> HIDE DEF w, f
  <2>4. p \notin Talkers => InFlight(w.sent, heard[p], rest, wire[p])
    BY <1>1, <1>2, <1>3, <2>2, ReadInFlight DEF PortOK
  <2> HIDE DEF rest
  <2>5. PortOK(p, w, wire[p], rest, heard[p], verdict[p])
    BY <1>1, <1>3, <2>2, <2>3, <2>4 DEF PortOK
  <2>6. /\ tester' \in [Ports -> Counters] /\ tester'[p] = w
        /\ \A q \in Ports \ {p} : tester'[q] = tester[q]
    BY <2>1, <2>2 DEF PortsOK
  <2>7. PortOK(p, tester'[p], wire'[p], inbox'[p], heard'[p], verdict'[p])
    BY <1>2, <1>5, <2>1, <2>5, <2>6
  <2> QED
    BY <1>2, <1>3, <1>5, <2>1, <2>6, <2>7, OnePort DEF PortsOK
<1>7. CASE f # Garbled
  <2> DEFINE w == [tester[p] EXCEPT !.at = "write", !.received = tester[p].received + 1]
  <2>1. tester' = [tester EXCEPT ![p] = w] /\ heard' = [heard EXCEPT ![p] = new]
    BY <1>7 DEF ReadFrame
  <2>2. /\ w \in Counters /\ w.at = "write" /\ w.sent = tester[p].sent
        /\ w.received = tester[p].received + 1 /\ w.failures = tester[p].failures
        /\ w.timeouts = tester[p].timeouts /\ Outstanding(w) = 0
    <3>1. w = [tester[p] EXCEPT !.at = "write", !.received = tester[p].received + 1]
      OBVIOUS
    <3>2. "write" \in PortPlaces
      BY DEF PortPlaces
    <3> HIDE DEF w, f, rest, new
    <3>3. Tally(w, "write", tester[p].sent, tester[p].received + 1, tester[p].failures, tester[p].timeouts) /\ Outstanding(w) = 0
      BY <1>1, <1>3, <3>1, <3>2, CounterReceived
    <3> QED
      BY <3>3 DEF Tally
  <2> HIDE DEF w
  <2>4. p \notin Talkers => InFlight(w.sent, new, rest, wire[p])
    BY <1>1, <1>2, <1>3, <1>7, <2>2, ReadInFlight DEF PortOK
  <2>5. /\ new \in Seq(Nat) /\ Len(new) = Len(heard[p]) + 1
        /\ \A k \in 1..Len(new) : \/ k \in 1..Len(heard[p]) /\ new[k] = heard[p][k]
                                  \/ k = Len(heard[p]) + 1 /\ new[k] = f
    BY <1>1, <1>4, AppendFacts
  <2>6. ASSUME p \notin Talkers, w.failures = 0, w.timeouts = 0, NEW k \in 1..Len(new)
        PROVE  new[k] = k
    <3>1. /\ \A i \in 1..Len(heard[p]) : heard[p][i] = i
          /\ tester[p].sent = Len(heard[p]) + 1
          /\ InFlight(tester[p].sent, heard[p], inbox[p], wire[p])
      <4>1. /\ tester[p].failures = 0 /\ tester[p].timeouts = 0 /\ tester[p].sent \in Int
            /\ tester[p].received = Len(heard[p]) /\ tester[p].received \in Nat
        BY <1>1, <2>2, <2>6, CounterFacts DEF PortOK
      <4>2. tester[p].sent = Len(heard[p]) + 1
        BY <1>3, <4>1 DEF Outstanding
      <4> QED
        BY <1>1, <1>2, <2>6, <4>1, <4>2 DEF PortOK
    <3>2. f = Len(heard[p]) + 1
      BY <1>1, <1>2, <1>3, <1>7, <3>1, NextIsHeard
    <3> HIDE DEF f, new
    <3> QED
      BY <2>5, <2>6, <3>1, <3>2
  <2> HIDE DEF f, new, rest
  <2>7. p \notin Talkers => Len(new) = w.received
    BY <1>1, <2>2, <2>5 DEF PortOK
  <2>8. PortOK(p, w, wire[p], rest, new, verdict[p])
    BY <1>3, <2>2, <2>4, <2>6, <2>7 DEF PortOK
  <2>9. /\ tester' \in [Ports -> Counters] /\ tester'[p] = w
        /\ heard' \in [Ports -> Seq(Nat)] /\ heard'[p] = new
        /\ \A q \in Ports \ {p} : tester'[q] = tester[q] /\ heard'[q] = heard[q]
    BY <2>1, <2>2, <2>5 DEF PortsOK
  <2>10. PortOK(p, tester'[p], wire'[p], inbox'[p], heard'[p], verdict'[p])
    BY <1>2, <1>5, <2>8, <2>9
  <2> QED
    BY <1>2, <1>3, <1>5, <2>9, <2>10, OnePort DEF PortsOK
<1> QED
  BY <1>6, <1>7

LEMMA ReadTimeoutStep ==
    ASSUME BootConstants, PortsOK, NEW p \in Ports, ReadTimeout(p)
    PROVE  PortsOK'
<1> DEFINE w == [tester[p] EXCEPT !.at = "write", !.timeouts = tester[p].timeouts + 1]
<1>1. /\ tester[p] \in Counters /\ verdict[p] \in Verdicts
      /\ PortOK(p, tester[p], wire[p], inbox[p], heard[p], verdict[p])
  BY PortFacts
<1>2. /\ program' = program /\ tester[p].at = "read"
      /\ tester' = [tester EXCEPT ![p] = w]
      /\ inbox' = inbox /\ wire' = wire /\ verdict' = verdict /\ heard' = heard
  BY DEF ReadTimeout
<1>3. /\ program = "serial" /\ verdict[p] = "none" /\ Outstanding(tester[p]) = 1
  BY <1>1, <1>2, PortFacts DEF PortOK
<1>4. /\ w \in Counters /\ w.at = "write" /\ w.sent = tester[p].sent
      /\ w.received = tester[p].received /\ w.failures = tester[p].failures
      /\ w.timeouts = tester[p].timeouts + 1 /\ Outstanding(w) = 0
  <2>1. w = [tester[p] EXCEPT !.at = "write", !.timeouts = tester[p].timeouts + 1]
    OBVIOUS
  <2>2. "write" \in PortPlaces
    BY DEF PortPlaces
  <2> HIDE DEF w
  <2>3. Tally(w, "write", tester[p].sent, tester[p].received, tester[p].failures, tester[p].timeouts + 1) /\ Outstanding(w) = 0
    BY <1>1, <1>3, <2>1, <2>2, CounterTimedOut
  <2> QED
    BY <2>3 DEF Tally
<1> HIDE DEF w
<1>5. w.timeouts # 0
  BY <1>1, <1>4, CounterFacts
<1>6. PortOK(p, w, wire[p], inbox[p], heard[p], verdict[p])
  BY <1>1, <1>2, <1>3, <1>4, <1>5 DEF PortOK
<1>7. /\ tester' \in [Ports -> Counters] /\ tester'[p] = w
      /\ \A q \in Ports \ {p} : tester'[q] = tester[q]
  BY <1>2, <1>4 DEF PortsOK
<1>8. PortOK(p, tester'[p], wire'[p], inbox'[p], heard'[p], verdict'[p])
  BY <1>2, <1>6, <1>7
<1> QED
  BY <1>2, <1>3, <1>7, <1>8, OnePort DEF PortsOK

\* A port passes when every read has brought the frame just sent.
LEMMA JudgeStep ==
    ASSUME BootConstants, PortsOK, NEW p \in Ports, Judge(p)
    PROVE  PortsOK'
<1> DEFINE w == [tester[p] EXCEPT !.at = "closed"]
           v == Verdict(tester[p])
<1>1. /\ tester[p] \in Counters /\ heard[p] \in Seq(Nat) /\ Frames \in Nat
      /\ PortOK(p, tester[p], wire[p], inbox[p], heard[p], verdict[p])
  BY PortFacts
<1>2. /\ program' = program /\ tester[p].at = "write" /\ tester[p].sent = Frames
      /\ tester' = [tester EXCEPT ![p] = w] /\ verdict' = [verdict EXCEPT ![p] = v]
      /\ inbox' = inbox /\ wire' = wire /\ heard' = heard
  BY DEF Judge
<1>3. /\ program = "serial" /\ Outstanding(tester[p]) = 0
  BY <1>1, <1>2, PortFacts DEF PortOK
<1>4. /\ w \in Counters /\ w.at = "closed" /\ w.sent = tester[p].sent
      /\ w.received = tester[p].received /\ w.failures = tester[p].failures
      /\ w.timeouts = tester[p].timeouts /\ Outstanding(w) = 0
  BY <1>1, <1>3, CountersKept DEF PortPlaces
<1>5. v \in Verdicts
  BY DEF Verdict, Verdicts
<1>6. ASSUME p \notin Talkers, v = "PASSED" PROVE heard[p] = [k \in 1..Frames |-> k]
  <2>1. tester[p].received = Frames /\ tester[p].failures = 0
    BY <1>6 DEF Verdict
  <2>2. tester[p].timeouts = 0
    BY <1>1, <1>2, <1>3, <2>1, CounterFacts DEF Outstanding
  <2>3. Len(heard[p]) = Frames /\ \A k \in 1..Len(heard[p]) : heard[p][k] = k
    BY <1>1, <1>6, <2>1, <2>2 DEF PortOK
  <2>4. heard[p] \in [1..Len(heard[p]) -> Nat]
    BY <1>1
  <2> QED
    BY <2>3, <2>4
<1> HIDE DEF w, v
<1>7. PortOK(p, w, wire[p], inbox[p], heard[p], v)
  BY <1>1, <1>2, <1>4, <1>5, <1>6 DEF PortOK
<1>8. /\ tester' \in [Ports -> Counters] /\ tester'[p] = w
      /\ verdict' \in [Ports -> Verdicts] /\ verdict'[p] = v
      /\ \A q \in Ports \ {p} : tester'[q] = tester[q] /\ verdict'[q] = verdict[q]
  BY <1>2, <1>4, <1>5 DEF PortsOK
<1>9. PortOK(p, tester'[p], wire'[p], inbox'[p], heard'[p], verdict'[p])
  BY <1>2, <1>7, <1>8
<1> QED
  BY <1>2, <1>3, <1>8, <1>9, OnePort DEF PortsOK

LEMMA PortFailsStep ==
    ASSUME BootConstants, PortsOK, NEW p \in Ports, PortFails(p)
    PROVE  PortsOK'
<1>1. /\ tester[p] \in Counters /\ verdict[p] \in Verdicts
      /\ PortOK(p, tester[p], wire[p], inbox[p], heard[p], verdict[p])
  BY PortFacts
<1>2. PICK place \in {"closed", "dead"}, v \in Verdicts :
          /\ tester' = [tester EXCEPT ![p].at = place]
          /\ verdict' = [verdict EXCEPT ![p] = v]
          /\ \/ place = "closed" /\ v = "PORT_UNAVAILABLE"
             \/ place = "dead" /\ v = verdict[p]
  <2>1. \/ /\ verdict' = [verdict EXCEPT ![p] = "PORT_UNAVAILABLE"]
           /\ tester' = [tester EXCEPT ![p].at = "closed"]
        \/ /\ tester' = [tester EXCEPT ![p].at = "dead"]
           /\ verdict' = [verdict EXCEPT ![p] = verdict[p]]
    BY DEF PortFails, PortsOK
  <2>2. "PORT_UNAVAILABLE" \in Verdicts
    BY DEF Verdicts
  <2> QED
    BY <1>1, <2>1, <2>2
<1> DEFINE w == [tester[p] EXCEPT !.at = place]
<1>3. /\ program' = program /\ tester[p].at \in {"opening", "write", "read"}
      /\ inbox' = inbox /\ wire' = wire /\ heard' = heard
      /\ tester' = [tester EXCEPT ![p] = w]
  BY <1>2 DEF PortFails
<1>4. /\ program = "serial" /\ Outstanding(tester[p]) \in {0, 1} /\ verdict[p] = "none"
  BY <1>1, <1>3, PortFacts DEF PortOK
<1>5. /\ w \in Counters /\ w.at = place /\ w.sent = tester[p].sent
      /\ w.received = tester[p].received /\ w.failures = tester[p].failures
      /\ w.timeouts = tester[p].timeouts /\ Outstanding(w) \in {0, 1}
  BY <1>1, <1>4, CountersKept DEF PortPlaces
<1> HIDE DEF w
<1>7. PortOK(p, w, wire[p], inbox[p], heard[p], v)
  BY <1>1, <1>2, <1>4, <1>5 DEF PortOK
<1>8. /\ tester' \in [Ports -> Counters] /\ tester'[p] = w
      /\ verdict' \in [Ports -> Verdicts] /\ verdict'[p] = v
      /\ \A q \in Ports \ {p} : tester'[q] = tester[q] /\ verdict'[q] = verdict[q]
  BY <1>2, <1>3, <1>5 DEF PortsOK
<1>9. PortOK(p, tester'[p], wire'[p], inbox'[p], heard'[p], verdict'[p])
  BY <1>3, <1>7, <1>8
<1> QED
  BY <1>3, <1>4, <1>8, <1>9, OnePort DEF PortsOK

LEMMA WireStepStep ==
    ASSUME BootConstants, PortsOK, NEW p \in Ports, WireStep(p)
    PROVE  PortsOK'
<1>1. /\ tester[p] \in Counters /\ wire[p] \in Seq(Nat) /\ inbox[p] \in Seq(Nat)
      /\ heard[p] \in Seq(Nat) /\ Frames \in Nat /\ Garbled \in Nat
      /\ PortOK(p, tester[p], wire[p], inbox[p], heard[p], verdict[p])
  BY PortFacts
<1>2. /\ program = "serial" /\ program' = program
      /\ tester' = tester /\ heard' = heard /\ verdict' = verdict
  BY DEF WireStep
<1>3. CASE wire[p] # <<>> /\ wire' = [wire EXCEPT ![p] = Tail(@)]
  <2> DEFINE far == Tail(wire[p])
  <2>1. Head(wire[p]) \in Nat /\ far \in Seq(Nat)
    BY <1>1, <1>3, TailFacts
  <2>2. PICK near \in Seq(Nat) :
            /\ inbox' = [inbox EXCEPT ![p] = near]
            /\ near \in {inbox[p], Append(inbox[p], Head(wire[p])), Append(inbox[p], Garbled)}
    <3>1. \/ inbox' = [inbox EXCEPT ![p] = Append(inbox[p], Head(wire[p]))]
          \/ inbox' = [inbox EXCEPT ![p] = Append(inbox[p], Garbled)]
          \/ inbox' = [inbox EXCEPT ![p] = inbox[p]]
          \/ p \in Talkers /\ tester[p].at = "read" /\ wire' = wire
      BY DEF WireStep, PortsOK
    <3>2. ~(wire' = wire)
      <4>1. Len(far) # Len(wire[p])
        BY <1>1, <1>3, TailFacts
      <4> QED
        BY <1>3, <4>1 DEF PortsOK
    <3>3. Append(inbox[p], Head(wire[p])) \in Seq(Nat) /\ Append(inbox[p], Garbled) \in Seq(Nat)
      BY <1>1, <2>1, AppendFacts
    <3> QED
      BY <1>1, <3>1, <3>2, <3>3
  <2>3. tester[p].at \notin {"idle", "opening"}
    BY <1>1, <1>3 DEF PortOK
  <2>4. p \notin Talkers /\ tester[p].at \in {"write", "read"} =>
            InFlight(tester[p].sent, heard[p], near, far)
    <3>1. tester[p].sent \in Nat
      <4>1. tester[p].sent \in 0..Frames
        BY <1>1, CounterFacts
      <4> QED
        BY <1>1, <4>1
    <3>2. p \notin Talkers /\ tester[p].at \in {"write", "read"} =>
              InFlight(tester[p].sent, heard[p], inbox[p], wire[p])
      BY <1>1 DEF PortOK
    <3> QED
      BY <1>1, <1>3, <2>2, <3>1, <3>2, WireInFlight
  <2> HIDE DEF far
  <2>5. PortOK(p, tester[p], far, near, heard[p], verdict[p])
    BY <1>1, <2>3, <2>4 DEF PortOK
  <2>6. /\ wire' \in [Ports -> Seq(Nat)] /\ wire'[p] = far
        /\ inbox' \in [Ports -> Seq(Nat)] /\ inbox'[p] = near
        /\ \A q \in Ports \ {p} : wire'[q] = wire[q] /\ inbox'[q] = inbox[q]
    BY <1>3, <2>1, <2>2 DEF PortsOK, far
  <2>7. PortOK(p, tester'[p], wire'[p], inbox'[p], heard'[p], verdict'[p])
    BY <1>2, <2>5, <2>6
  <2> QED
    BY <1>2, <2>6, <2>7, OnePort DEF PortsOK
<1>4. CASE p \in Talkers /\ inbox' = [inbox EXCEPT ![p] = <<0>>] /\ wire' = wire
  <2>1. <<0>> \in Seq(Nat)
    OBVIOUS
  <2>2. /\ inbox' \in [Ports -> Seq(Nat)]
        /\ \A q \in Ports \ {p} : inbox'[q] = inbox[q]
    BY <1>4, <2>1 DEF PortsOK
  <2>3. PortOK(p, tester'[p], wire'[p], inbox'[p], heard'[p], verdict'[p])
    BY <1>1, <1>2, <1>4 DEF PortOK
  <2> QED
    BY <1>2, <1>4, <2>2, <2>3, OnePort DEF PortsOK
<1> QED
  BY <1>3, <1>4 DEF WireStep

\* Nothing is left of an audit when it ends, and nothing but stale bytes when it starts.
LEMMA IdlePort ==
    ASSUME BootConstants, NEW p \in Ports, NEW place \in {"idle", "opening"},
           NEW near
    PROVE  /\ [Idle EXCEPT !.at = place] \in Counters
           /\ PortOK(p, [Idle EXCEPT !.at = place], <<>>, near, <<>>, "none")
<1> DEFINE w == [Idle EXCEPT !.at = place]
<1>1. /\ w.at = place /\ w.sent = 0 /\ w.received = 0 /\ w.failures = 0 /\ w.timeouts = 0
      /\ w \in Counters
  <2>1. 0 \in 0..Frames /\ 0 \in Nat /\ place \in PortPlaces
    BY DEF BootConstants, PortPlaces
  <2> QED
    BY <2>1 DEF Idle, Counters
<1> HIDE DEF w
<1>2. Len(<<>>) = 0 /\ Outstanding(w) = 0
  BY <1>1 DEF Outstanding
<1>3. PortOK(p, w, <<>>, near, <<>>, "none")
  BY <1>1, <1>2 DEF PortOK
<1> QED
  BY <1>1, <1>3 DEF w

LEMMA AuditEnds ==
    ASSUME BootConstants, StartSerialAudit \/ EndSerialAudit, BootIInv
    PROVE  PortsOK'
<1>0. <<>> \in Seq(Nat) /\ <<0>> \in Seq(Nat)
  OBVIOUS
<1>1. CASE StartSerialAudit
  <2>1. program = "none" /\ program' = "serial"
    BY <1>1 DEF StartSerialAudit, Start
  <2>2. /\ tester' = [p \in Ports |-> [Idle EXCEPT !.at = "opening"]]
        /\ wire' = wire /\ heard' = heard /\ verdict' = verdict
    BY <1>1 DEF StartSerialAudit
  <2>3. inbox' \in [Ports -> Seq(Nat)]
    BY <1>0, <1>1 DEF StartSerialAudit
  <2>4. /\ verdict \in [Ports -> Verdicts] /\ wire \in [Ports -> Seq(Nat)]
        /\ heard \in [Ports -> Seq(Nat)]
        /\ \A p \in Ports : wire[p] = <<>> /\ heard[p] = <<>> /\ verdict[p] = "none"
    BY <2>1 DEF BootIInv, PortsOK
  <2>5. ASSUME NEW p \in Ports
        PROVE  /\ tester'[p] \in Counters
               /\ PortOK(p, tester'[p], wire'[p], inbox'[p], heard'[p], verdict'[p])
    <3>1. /\ tester'[p] = [Idle EXCEPT !.at = "opening"] /\ wire'[p] = <<>> /\ heard'[p] = <<>>
          /\ verdict'[p] = "none"
      BY <2>2, <2>4
    <3> QED
      BY <3>1, IdlePort
  <2>6. tester' \in [Ports -> Counters]
    BY <2>2, <2>5
  <2> QED
    BY <2>1, <2>2, <2>3, <2>4, <2>5, <2>6 DEF PortsOK
<1>2. CASE EndSerialAudit
  <2>1. /\ tester' = [p \in Ports |-> Idle] /\ wire' = [p \in Ports |-> <<>>]
        /\ inbox' = wire' /\ heard' = wire' /\ verdict' = [p \in Ports |-> "none"]
    BY <1>2 DEF EndSerialAudit
  <2>2. Idle = [Idle EXCEPT !.at = "idle"] /\ "none" \in Verdicts
    BY DEF Idle, Verdicts
  <2>3. ASSUME NEW p \in Ports
        PROVE  /\ tester'[p] \in Counters
               /\ PortOK(p, tester'[p], wire'[p], inbox'[p], heard'[p], verdict'[p])
    <3>1. /\ tester'[p] = [Idle EXCEPT !.at = "idle"] /\ wire'[p] = <<>> /\ heard'[p] = <<>>
          /\ verdict'[p] = "none"
      BY <2>1, <2>2
    <3> QED
      BY <3>1, IdlePort
  <2>4. /\ tester' \in [Ports -> Counters] /\ wire' \in [Ports -> Seq(Nat)]
        /\ verdict' \in [Ports -> Verdicts]
    BY <1>0, <2>1, <2>2, <2>3
  <2> QED
    BY <2>1, <2>3, <2>4 DEF PortsOK
<1> QED
  BY <1>1, <1>2

-----------------------------------------------------------------------------
(* The network audit.                                                      *)

\* Every class of the manifest has an address of its own.
LEMMA ClassAddresses ==
    ASSUME BootConstants
    PROVE  /\ Len(Classes) \in 1..5
           /\ \A i, j \in 1..Len(Classes) :
                 AuditedMac(Classes[i]) = AuditedMac(Classes[j]) => i = j
<1> DEFINE all == <<"EARLY_AEGIS_CRUISER", "EARLY_AEGIS_DESTROYER", "ENTERPRISE_CARRIER",
                    "PRE_AEGIS_COMBATTANT", "PRE_AEGIS_AUXILIARY">>
<1>1. ClassCount \in 1..5
  BY DEF BootConstants
<1>2. /\ Len(Classes) = ClassCount
      /\ \A i \in 1..Len(Classes) : Classes[i] = all[i] /\ i \in 1..5
  BY <1>1 DEF Classes
<1>3. \A i \in 1..5 : all[i] \in HullClasses
  BY DEF HullClasses
<1>4. \A i, j \in 1..5 : all[i] = all[j] => i = j
  OBVIOUS
<1> HIDE DEF all
<1>5. ASSUME NEW i \in 1..Len(Classes), NEW j \in 1..Len(Classes),
             AuditedMac(Classes[i]) = AuditedMac(Classes[j])
      PROVE  i = j
  <2>1. AuditedMac(Classes[i]).oui = Classes[i] /\ AuditedMac(Classes[j]).oui = Classes[j]
    BY <1>2, <1>3 DEF AuditedMac, HandshakeMac
  <2> QED
    BY <1>2, <1>4, <1>5, <2>1
<1> QED
  BY <1>1, <1>2, <1>5

\* The class whose echo is taken for this one's is this one.
LEMMA ReceiveStep ==
    ASSUME BootConstants, BoundsOK, NetworkOK, Receive
    PROVE  NetworkOK'
<1>1. /\ shaken = "sent" /\ shaken' \in {"passed", "failed"}
      /\ program' = program /\ os' = os /\ turn' = turn /\ suitePassed' = suitePassed
  BY DEF Receive
<1>2. /\ program = "network" /\ turn \in 1..Len(Classes) /\ Len(Classes) \in Nat
  BY <1>1, ClassAddresses DEF NetworkOK
<1>3. /\ ether' \subseteq ether /\ answered' \subseteq answered \cup {turn}
      /\ answered \subseteq answered'
      /\ shaken' = "passed" => turn \in answered'
  <2>1. CASE shaken' = "failed" /\ UNCHANGED <<answered, ether>>
    BY <2>1
  <2>2. ASSUME NEW echo \in ether,
               shaken' = IF AuditedMac(Classes[echo]) = AuditedMac(Classes[turn])
                         THEN "passed" ELSE "failed",
               answered' = IF echo = turn THEN answered \cup {turn} ELSE answered,
               ether' = ether \ {echo}
        PROVE  <1>3
    <3>1. echo \in 1..Len(Classes)
      BY DEF NetworkOK
    <3>2. shaken' = "passed" => echo = turn
      BY <1>2, <2>2, <3>1, ClassAddresses
    <3> QED
      BY <2>2, <3>2
  <2> QED
    BY <2>1, <2>2 DEF Receive
<1>4. ether' \subseteq 1..Len(Classes) /\ answered' \subseteq 1..Len(Classes)
  BY <1>2, <1>3 DEF NetworkOK
<1>5. ASSUME os' = "posix", suitePassed' PROVE 1..(turn' - 1) \subseteq answered'
  <2>1. 1..(turn - 1) \subseteq answered
    BY <1>1, <1>5, Zenon DEF NetworkOK
  <2> QED
    BY <1>1, <1>3, <2>1
<1>6. turn' \in 1..Len(Classes) /\ turn' <= Len(Classes) /\ turn' \in 1..(Len(Classes) + 1)
  BY <1>1, <1>2
<1>7. suitePassed' \in BOOLEAN /\ program' = "network"
  BY <1>1, <1>2, Zenon DEF NetworkOK
<1>8. /\ shaken' \in {"no", "sent", "passed", "failed"}
      /\ shaken' = "passed" => turn' \in answered'
  BY <1>1, <1>3
<1> QED
  BY <1>4, <1>5, <1>6, <1>7, <1>8, Zenon DEF NetworkOK

LEMMA NetworkStep ==
    ASSUME BootConstants, BoundsOK, NetworkOK,
           \/ StartNetworkAudit \/ SendFrame \/ NextClass \/ EndNetworkAudit
    PROVE  NetworkOK'
<1>0. Len(Classes) \in 1..5
  BY ClassAddresses
<1>1. CASE StartNetworkAudit
  <2>1. /\ program = "none" /\ program' = "network"
        /\ shaken' = shaken /\ ether' = ether /\ answered' = answered
        /\ \/ turn' = 1 /\ suitePassed' = TRUE
           \/ turn' = Len(Classes) + 1 /\ suitePassed' = FALSE
    BY <1>1 DEF StartNetworkAudit, Start
  <2>2. shaken = "no" /\ ether = {} /\ answered = {}
    BY <2>1 DEF NetworkOK
  <2>3. 1..(1 - 1) = {} /\ 1 \in 1..(Len(Classes) + 1)
        /\ Len(Classes) + 1 \in 1..(Len(Classes) + 1)
    BY <1>0
  <2>4. /\ turn' \in 1..(Len(Classes) + 1) /\ suitePassed' \in BOOLEAN
        /\ suitePassed' => 1..(turn' - 1) \subseteq answered'
    BY <2>1, <2>3
  <2>5. /\ shaken' = "no" /\ ether' \subseteq 1..Len(Classes)
        /\ answered' \subseteq 1..Len(Classes) /\ shaken' # "passed"
    BY <2>1, <2>2
  <2> QED
    BY <2>1, <2>4, <2>5, Zenon DEF NetworkOK
<1>2. CASE SendFrame
  <2>1. /\ program = "network" /\ program' = program /\ turn <= Len(Classes)
        /\ os' = os /\ turn' = turn /\ answered' = answered /\ suitePassed' = suitePassed
        /\ ether' \subseteq ether \cup {turn}
        /\ shaken' \in {"sent", "passed", "failed"}
        /\ shaken' = "passed" => os = "nt"
    BY <1>2 DEF SendFrame
  <2>2. turn \in 1..Len(Classes) /\ turn \in 1..(Len(Classes) + 1)
    BY <1>0, <2>1 DEF NetworkOK
  <2>3. ether' \subseteq 1..Len(Classes)
    BY <2>1, <2>2 DEF NetworkOK
  <2>4. ~(os' = "posix" /\ shaken' = "passed") /\ program' = "network"
    BY <2>1
  <2>5. /\ turn' \in 1..(Len(Classes) + 1) /\ turn' <= Len(Classes)
        /\ shaken' \in {"no", "sent", "passed", "failed"}
    BY <2>1, <2>2
  <2>6. /\ suitePassed' \in BOOLEAN /\ answered' \subseteq 1..Len(Classes)
        /\ os' = "posix" /\ suitePassed' => 1..(turn' - 1) \subseteq answered'
    BY <2>1, Zenon DEF NetworkOK
  <2> QED
    BY <2>3, <2>4, <2>5, <2>6, Zenon DEF NetworkOK
<1>3. CASE NextClass
  <2>1. /\ program = "network" /\ program' = program /\ shaken \in {"passed", "failed"}
        /\ os' = os /\ turn' = turn + 1 /\ answered' = answered /\ ether' = ether
        /\ suitePassed' = (suitePassed /\ shaken = "passed") /\ shaken' = "no"
    BY <1>3 DEF NextClass
  <2>2. /\ turn \in 1..Len(Classes) /\ turn' \in 1..(Len(Classes) + 1)
        /\ 1..(turn' - 1) = 1..(turn - 1) \cup {turn}
    BY <1>0, <2>1 DEF NetworkOK
  <2>3. /\ suitePassed' \in BOOLEAN
        /\ suitePassed' => suitePassed /\ shaken = "passed"
    BY <2>1
  <2>4. os' = "posix" /\ suitePassed' => 1..(turn' - 1) \subseteq answered'
    BY <2>1, <2>2, <2>3 DEF NetworkOK
  <2> QED
    BY <2>1, <2>2, <2>3, <2>4 DEF NetworkOK
<1>4. CASE EndNetworkAudit
  <2>1. /\ program = "network" /\ turn > Len(Classes) /\ program' = "none" /\ turn' = 1
        /\ ether' = {} /\ answered' = {} /\ suitePassed' = TRUE /\ shaken' = shaken
    BY <1>4 DEF EndNetworkAudit
  <2>2. shaken = "no"
    BY <1>0, <2>1 DEF NetworkOK
  <2>3. 1..(1 - 1) = {}
    OBVIOUS
  <2> QED
    BY <1>0, <2>1, <2>2, <2>3 DEF NetworkOK
<1> QED
  BY <1>1, <1>2, <1>3, <1>4

-----------------------------------------------------------------------------
(* The boot of the bridge.                                                 *)

LEMMA BootstrapStep ==
    ASSUME BoundsOK, BridgeOK,
           StartBridge \/ Bootstrap \/ StopBridge \/ EditConfiguration
    PROVE  BridgeOK'
<1>1. CASE StartBridge
  <2>1. /\ program' = "bridge" /\ at' = "import" /\ profile' = "none" /\ wires' = {}
        /\ UNCHANGED <<found, file, model>>
    BY <1>1 DEF StartBridge, Start
  <2> QED
    BY <2>1 DEF BridgeOK, WiresAllOrNone
<1>2. CASE Import
  <2>1. /\ program' = program /\ at = "import" /\ at' = "suite"
        /\ model' = SelectModel(model, "AN/UYK-43") /\ UNCHANGED <<found, file, profile, wires>>
    BY <1>2 DEF Import
  <2>2. SelectModel(model, "AN/UYK-43") \in Models
    BY DEF BridgeOK, SelectModel
  <2> QED
    BY <2>1, <2>2 DEF BridgeOK, WiresAllOrNone
<1>3. CASE BootSuite
  BY <1>3 DEF BootSuite, BridgeOK, WiresAllOrNone
<1>4. CASE LoadSpecifications
  BY <1>4 DEF LoadSpecifications, BridgeOK, WiresAllOrNone
<1>5. CASE GenerateDefaults
  BY <1>5 DEF GenerateDefaults, BridgeOK, WiresAllOrNone
<1>6. CASE StartServices
  BY <1>6 DEF StartServices, BridgeOK, WiresAllOrNone
<1>7. CASE OpenWires
  BY <1>7 DEF OpenWires, BridgeOK, WiresAllOrNone
<1>8. CASE StopBridge
  BY <1>8 DEF StopBridge, BridgeOK, WiresAllOrNone
<1>9. CASE EditConfiguration
  <2>1. /\ program' = program /\ at' = at /\ found' = found /\ profile' = profile
        /\ model' = model /\ wires' = wires
        /\ file' \in {"absent", "torn", "edited", "invalid", "foreign"}
    BY <1>9 DEF EditConfiguration, bridgeVars
  <2> QED
    BY <2>1 DEF BridgeOK, WiresAllOrNone
<1> QED
  BY <1>1, <1>2, <1>3, <1>4, <1>5, <1>6, <1>7, <1>8, <1>9 DEF Bootstrap

-----------------------------------------------------------------------------
(* The whole.                                                              *)

\* What one program does leaves the others' variables as they were, and they need
\* only know whether their own program runs.
LEMMA OthersPorts ==
    ASSUME PortsOK, auditVars' = auditVars, program # "serial" \/ program' = "serial"
    PROVE  PortsOK'
<1>1. /\ tester' = tester /\ wire' = wire /\ inbox' = inbox /\ heard' = heard
      /\ verdict' = verdict
  BY DEF auditVars
<1> QED
  BY <1>1 DEF PortsOK

LEMMA OthersNetwork ==
    ASSUME NetworkOK, netVars' = netVars, program # "network" \/ program' = "network"
    PROVE  NetworkOK'
<1>1. /\ os' = os /\ turn' = turn /\ shaken' = shaken /\ ether' = ether
      /\ answered' = answered /\ suitePassed' = suitePassed
  BY DEF netVars
<1> QED
  BY <1>1 DEF NetworkOK

LEMMA OthersBridge ==
    ASSUME BridgeOK, bridgeVars' = bridgeVars, file' = file,
           program # "bridge" \/ program' = "bridge"
    PROVE  BridgeOK'
<1>1. /\ at' = at /\ found' = found /\ profile' = profile /\ model' = model
      /\ wires' = wires
  BY DEF bridgeVars
<1> QED
  BY <1>1 DEF BridgeOK, WiresAllOrNone

LEMMA BoundsStep ==
    ASSUME BootConstants, BoundsOK, BootNext
    PROVE  BoundsOK'
<1>1. /\ starts \in Nat /\ noise \in Nat /\ edits \in Nat
      /\ MaxBoots \in Nat /\ MaxNoise \in Nat /\ MaxEdits \in Nat
  BY DEF BoundsOK, BootConstants
<1>2. /\ program' = program \/ program' \in {"none", "serial", "network", "bridge"}
      /\ starts' = starts \/ (starts < MaxBoots /\ starts' = starts + 1)
      /\ noise' = noise \/ (noise < MaxNoise /\ noise' = noise + 1)
      /\ edits' = edits \/ (edits < MaxEdits /\ edits' = edits + 1)
  <2>1. CASE StartSerialAudit \/ EndSerialAudit
    BY <2>1 DEF StartSerialAudit, EndSerialAudit, Start
  <2>2. ASSUME NEW p \in Ports, SerialAudit(p) PROVE <1>2
    BY <2>2 DEF SerialAudit, OpenTestPort, WriteFrame, ReadFrame, ReadTimeout, Judge
  <2>3. ASSUME NEW p \in Ports, PortFails(p) \/ WireStep(p) PROVE <1>2
    BY <2>3 DEF PortFails, WireStep, Mishap
  <2>4. CASE StartNetworkAudit \/ NetworkAudit
    BY <2>4 DEF StartNetworkAudit, NetworkAudit, SendFrame, Receive, NextClass,
                EndNetworkAudit, Start, Mishap
  <2>5. CASE StartBridge \/ StopBridge \/ EditConfiguration
    BY <2>5 DEF StartBridge, StopBridge, EditConfiguration, Start, BridgeStep
  <2>6. CASE Bootstrap
    BY <2>6 DEF Bootstrap, Import, BootSuite, LoadSpecifications, GenerateDefaults,
                StartServices, OpenWires, BridgeStep, Mishap
  <2> QED
    BY <2>1, <2>2, <2>3, <2>4, <2>5, <2>6 DEF BootNext
<1> QED
  BY <1>1, <1>2 DEF BoundsOK

LEMMA InitBootIInv ==
    ASSUME BootConstants, BootInit
    PROVE  BootIInv
<1>1. PortsOK
  <2>1. <<>> \in Seq(Nat) /\ Idle = [Idle EXCEPT !.at = "idle"] /\ "none" \in Verdicts
    BY DEF Idle, Verdicts
  <2>2. /\ tester = [p \in Ports |-> Idle] /\ wire = [p \in Ports |-> <<>>]
        /\ inbox = wire /\ heard = wire /\ verdict = [p \in Ports |-> "none"]
    BY DEF BootInit
  <2>3. ASSUME NEW p \in Ports
        PROVE  /\ tester[p] \in Counters
               /\ PortOK(p, tester[p], wire[p], inbox[p], heard[p], verdict[p])
    <3>1. /\ tester[p] = [Idle EXCEPT !.at = "idle"] /\ wire[p] = <<>> /\ heard[p] = <<>>
          /\ verdict[p] = "none"
      BY <2>1, <2>2
    <3> QED
      BY <3>1, IdlePort
  <2>4. /\ tester \in [Ports -> Counters] /\ wire \in [Ports -> Seq(Nat)]
        /\ verdict \in [Ports -> Verdicts]
    BY <2>1, <2>2, <2>3
  <2> QED
    BY <2>2, <2>3, <2>4 DEF PortsOK
<1>2. NetworkOK
  <2>1. Len(Classes) \in 1..5 /\ 1..(1 - 1) = {}
    BY ClassAddresses
  <2> QED
    BY <2>1 DEF NetworkOK, BootInit
<1>3. BridgeOK
  BY DEF BootInit, BridgeOK, WiresAllOrNone, Models, Registry
<1>4. BoundsOK
  BY DEF BootInit, BoundsOK, BootConstants
<1> QED
  BY <1>1, <1>2, <1>3, <1>4 DEF BootIInv

LEMMA NextBootIInv ==
    ASSUME BootConstants, BootIInv, [BootNext]_bootVars
    PROVE  BootIInv'
<1> USE DEF BootIInv
<1>1. CASE UNCHANGED bootVars
  <2>1. /\ auditVars' = auditVars /\ netVars' = netVars /\ bridgeVars' = bridgeVars
        /\ program' = program /\ starts' = starts /\ noise' = noise /\ edits' = edits
        /\ file' = file
    BY <1>1 DEF bootVars
  <2>2. BoundsOK'
    BY <2>1 DEF BoundsOK
  <2> QED
    BY <2>1, <2>2, OthersPorts, OthersNetwork, OthersBridge
<1>2. ASSUME BootNext, PortsOK', netVars' = netVars, bridgeVars' = bridgeVars, file' = file,
             program \in {"none", "serial"}, program' \in {"none", "serial"}
      PROVE  BootIInv'
  BY <1>2, BoundsStep, OthersNetwork, OthersBridge
<1>3. CASE StartSerialAudit \/ EndSerialAudit
  <2>1. /\ netVars' = netVars /\ bridgeVars' = bridgeVars /\ file' = file
        /\ program \in {"none", "serial"} /\ program' \in {"none", "serial"}
    BY <1>3 DEF StartSerialAudit, EndSerialAudit, Start
  <2>2. BootNext
    BY <1>3 DEF BootNext
  <2> QED
    BY <1>2, <1>3, <2>1, <2>2, AuditEnds
<1>4. ASSUME NEW p \in Ports, SerialAudit(p) \/ PortFails(p) \/ WireStep(p) PROVE BootIInv'
  <2>1. PortsOK'
    BY <1>4, OpenPortStep, WriteFrameStep, ReadFrameStep, ReadTimeoutStep, JudgeStep,
       PortFailsStep, WireStepStep DEF SerialAudit
  <2>2. /\ netVars' = netVars /\ bridgeVars' = bridgeVars /\ file' = file
        /\ program' = program
        /\ program = "serial" \/ tester[p].at \in {"opening", "write", "read"}
    BY <1>4 DEF SerialAudit, OpenTestPort, WriteFrame, ReadFrame, ReadTimeout, Judge, PortFails,
                WireStep
  <2>3. program = "serial"
    BY <2>2, PortFacts
  <2>4. BootNext
    BY <1>4 DEF BootNext
  <2> QED
    BY <1>2, <2>1, <2>2, <2>3, <2>4
<1>5. CASE StartNetworkAudit \/ NetworkAudit
  <2>1. NetworkOK'
    BY <1>5, NetworkStep, ReceiveStep DEF NetworkAudit
  <2>2. /\ auditVars' = auditVars /\ bridgeVars' = bridgeVars /\ file' = file
        /\ program' \in {"network", "none", program}
        /\ program \in {"none", "network"} \/ shaken = "sent"
    BY <1>5 DEF StartNetworkAudit, NetworkAudit, SendFrame, Receive, NextClass,
                EndNetworkAudit, Start
  <2>3. program \in {"none", "network"}
    BY <2>2 DEF NetworkOK
  <2>4. BootNext
    BY <1>5 DEF BootNext
  <2> QED
    BY <2>1, <2>2, <2>3, <2>4, BoundsStep, OthersPorts, OthersBridge
<1>6. CASE StartBridge \/ Bootstrap \/ StopBridge \/ EditConfiguration
  <2>1. BridgeOK' /\ BoundsOK'
    BY <1>6, BootstrapStep, BoundsStep DEF BootNext
  <2>2. /\ auditVars' = auditVars /\ netVars' = netVars
        /\ program \in {"none", "bridge"} \/ at # "off"
    BY <1>6 DEF StartBridge, Bootstrap, StopBridge, EditConfiguration, Start, Import, BootSuite,
                LoadSpecifications, GenerateDefaults, StartServices, OpenWires, BridgeStep
  <2>3. program \in {"none", "bridge"}
    BY <2>2 DEF BridgeOK
  <2> QED
    BY <2>1, <2>2, <2>3, OthersPorts, OthersNetwork
<1> QED
  BY <1>1, <1>3, <1>4, <1>5, <1>6 DEF BootNext

LEMMA BootInvariance ==
    ASSUME BootConstants
    PROVE  BootSpec => []BootIInv
<1>1. BootInit => BootIInv
  BY InitBootIInv
<1>2. BootIInv /\ [BootNext]_bootVars => BootIInv'
  BY NextBootIInv
<1> QED
  BY <1>1, <1>2, PTL DEF BootSpec

\* The validators and bootstrap_system, for any number of ports and frames: a port with a
\* plug that PASSED returned every frame, whole, once, in order and in its own read; a
\* clear network answered for every class; the loop has all four wires or none.
THEOREM BootIsSafe ==
    ASSUME BootConstants
    PROVE  BootSpec => []BootSafety
<1>1. BootIInv => BootSafety
  <2> SUFFICES ASSUME BootIInv PROVE BootSafety
    OBVIOUS
  <2>1. ASSUME NEW p \in Ports
        PROVE  /\ tester[p].at \in PortPlaces
               /\ tester[p].sent - (tester[p].received + tester[p].failures + tester[p].timeouts)
                    = IF tester[p].at = "read" \/ Interrupted(p) THEN 1 ELSE 0
    <3>1. /\ tester[p] \in Counters
          /\ PortOK(p, tester[p], wire[p], inbox[p], heard[p], verdict[p])
      BY PortFacts DEF BootIInv
    <3>2. /\ tester[p].at \in PortPlaces /\ tester[p].sent \in 0..Frames
          /\ tester[p].received \in Nat /\ tester[p].failures \in Nat /\ tester[p].timeouts \in Nat
      BY <3>1, CounterFacts
    <3>3. tester[p].sent \in Int
      BY <3>2
    <3> QED
      BY <3>1, <3>2, <3>3 DEF PortOK, Outstanding, Interrupted, PortPlaces
  <2>2. BootTypeOK
    BY <2>1 DEF BootIInv, BoundsOK, NetworkOK, BridgeOK, BootTypeOK, PortPlaces
  <2>3. PassedPortsEchoed
    BY DEF BootIInv, PortsOK, PortOK, PassedPortsEchoed
  <2>4. ClearNetworkAnswered
    <3> SUFFICES ASSUME suitePassed, os = "posix", turn > Len(Classes)
                 PROVE  answered = 1..Len(Classes)
      BY DEF ClearNetworkAnswered
    <3>1. turn = Len(Classes) + 1 /\ Len(Classes) \in Nat
      BY ClassAddresses DEF BootIInv, NetworkOK
    <3>2. 1..(turn - 1) = 1..Len(Classes)
      BY <3>1
    <3> QED
      BY <3>2 DEF BootIInv, NetworkOK
  <2> QED
    BY <2>2, <2>3, <2>4 DEF BootIInv, BridgeOK, BootSafety
<1> QED
  BY <1>1, BootInvariance, PTL

\* LogisticsConfigLoader: a boot writes the configuration file only when it found none.
THEOREM FileIsTheirs ==
    ASSUME BootConstants
    PROVE  BootSpec => OnlyAbsenceIsReplaced
<1>1. BootIInv /\ [BootNext]_bootVars => [file' # file /\ edits' = edits => found = "absent"]_bootVars
  <2> SUFFICES ASSUME BootIInv, BootNext, file' # file, edits' = edits
               PROVE  found = "absent"
    OBVIOUS
  <2>1. CASE GenerateDefaults
    BY <2>1 DEF BootIInv, BridgeOK, GenerateDefaults
  <2>2. CASE EditConfiguration
    BY <2>2 DEF EditConfiguration, BootIInv, BoundsOK
  <2>3. CASE StartSerialAudit \/ EndSerialAudit \/ StartNetworkAudit \/ NetworkAudit
    BY <2>3 DEF StartSerialAudit, EndSerialAudit, StartNetworkAudit, NetworkAudit, SendFrame,
                Receive, NextClass, EndNetworkAudit
  <2>4. ASSUME NEW p \in Ports, SerialAudit(p) \/ PortFails(p) \/ WireStep(p)
        PROVE  file' = file
    BY <2>4 DEF SerialAudit, OpenTestPort, WriteFrame, ReadFrame, ReadTimeout, Judge, PortFails,
                WireStep
  <2>5. CASE StartBridge \/ StopBridge \/ Import \/ BootSuite \/ LoadSpecifications
             \/ StartServices \/ OpenWires
    BY <2>5 DEF StartBridge, StopBridge, Import, BootSuite, LoadSpecifications, StartServices,
                OpenWires
  <2> QED
    BY <2>1, <2>2, <2>3, <2>4, <2>5 DEF BootNext, Bootstrap
<1> QED
  BY <1>1, BootInvariance, PTL DEF BootSpec, OnlyAbsenceIsReplaced

-----------------------------------------------------------------------------
(* SerialIntake.                                                           *)

USE ConstantsAssumption DEF ConstantsAssumption

\* As long as none is started over another, the thread the listener knows of is the
\* only one; it opens a port, or forgets one, only when none is open.
OnlyWorker ==
    ~overlap =>
        /\ \A t \in Threads : Alive(t) => t = worker
        /\ \A t \in Threads : reader[t] \in {"opening", "forgetting"} => open = {}

Joined == {"closing", "asking", "shutting", "stopped", "failed"}

\* From the stop to the next start nobody is told to listen.
StopIsTold == caller \in Joined \cup {"joining"} => ~isListening

\* Where a thread is on its way out of a pause, and out of a read.
Resting == {"unborn", "ended", "pause", "test"}
Leaving == Resting \cup {"reading", "ingest", "drop", "closing", "forgetting"}

\* A thread that outlasted the join does not come to open a port, nor, if it was in
\* its pause, to read one or to forget one that stop_listening has seen.
OnItsWayOut ==
    (~overlap /\ caller \in Joined) =>
        /\ outlasted # "opening" => \A t \in Threads : reader[t] \in Leaving
        /\ outlasted \in {"nothing", "pause"} =>
            /\ \A t \in Threads : reader[t] \in Resting
            /\ caller \in {"asking", "shutting"} => serialConn # 0

IInv == /\ TypeOK /\ OnlyWorker /\ StopIsTold /\ OnItsWayOut
        /\ NoHandleIsLost /\ StopFailsIfOutlasted

-----------------------------------------------------------------------------

LEMMA InitInv == Init => IInv
<1> SUFFICES ASSUME Init PROVE IInv
  OBVIOUS
<1> USE DEF Init
<1>1. TypeOK
  <2>1. /\ pyserial \in BOOLEAN /\ plugged \in BOOLEAN /\ isListening \in BOOLEAN
        /\ odd \in BOOLEAN /\ overlap \in BOOLEAN
    BY Zenon
  <2>q. QED BY <2>1 DEF TypeOK, Places, Stops, Threads, Handles
<1>2. OnlyWorker /\ StopIsTold /\ OnItsWayOut /\ NoHandleIsLost /\ StopFailsIfOutlasted
  BY DEF OnlyWorker, StopIsTold, OnItsWayOut, NoHandleIsLost, StopFailsIfOutlasted, Alive, Joined
<1>q. QED BY <1>1, <1>2 DEF IInv

-----------------------------------------------------------------------------
(* The steps of the cable and the caller.                                  *)

LEMMA StartStep == IInv /\ StartListening => IInv'
<1> SUFFICES ASSUME IInv, StartListening PROVE IInv'
  OBVIOUS
<1> USE DEF IInv
<1>1. PICK t \in Threads :
          /\ reader[t] = "unborn" /\ reader' = [reader EXCEPT ![t] = "test"]
          /\ worker' = t
  BY DEF StartListening
<1>2. /\ isListening' = TRUE /\ caller' = "idle" /\ outlasted' = "nothing"
      /\ overlap' = (overlap \/ \E u \in Threads : Alive(u))
      /\ UNCHANGED <<pyserial, plugged, serialConn, open, opened, odd, using>>
  BY DEF StartListening
<1>3. TypeOK'
  <2>1. overlap' \in BOOLEAN /\ isListening' \in BOOLEAN
    BY <1>2, Zenon
  <2>2. reader' \in [Threads -> Places]
    BY <1>1 DEF TypeOK, Places
  <2>q. QED BY <1>1, <1>2, <2>1, <2>2 DEF TypeOK, Stops
<1>4. ~overlap' => ~overlap /\ \A u \in Threads : ~Alive(u)
  BY <1>2
<1>5. OnlyWorker'
  BY <1>1, <1>4 DEF OnlyWorker, Alive, TypeOK
<1>6. StopIsTold' /\ OnItsWayOut' /\ NoHandleIsLost' /\ StopFailsIfOutlasted'
  BY <1>2, <1>4 DEF StopIsTold, OnItsWayOut, NoHandleIsLost, StopFailsIfOutlasted, Joined
<1>q. QED BY <1>3, <1>5, <1>6

LEMMA JoinStep == IInv /\ Join => IInv'
<1> SUFFICES ASSUME IInv, Join PROVE IInv'
  OBVIOUS
<1> USE DEF IInv, Join, callerFrame
<1>1. TypeOK'
  BY DEF TypeOK, Stops
<1>2. OnlyWorker' /\ StopIsTold' /\ NoHandleIsLost' /\ StopFailsIfOutlasted'
  BY DEF OnlyWorker, StopIsTold, NoHandleIsLost, StopFailsIfOutlasted, Alive, Joined
<1>3. OnItsWayOut'
  <2> SUFFICES ASSUME ~overlap
               PROVE  /\ outlasted' # "opening" => \A t \in Threads : reader[t] \in Leaving
                      /\ outlasted' \in {"nothing", "pause"} =>
                            \A t \in Threads : reader[t] \in Resting
    BY DEF OnItsWayOut
  <2>1. \A t \in Threads : reader[t] \in {"unborn", "ended"} \/ t = worker
    BY DEF OnlyWorker, Alive
  <2>q. QED BY <2>1 DEF Leaving, Resting
<1>q. QED BY <1>1, <1>2, <1>3

LEMMA CallerStep ==
    ASSUME IInv, Plug \/ StopListening \/ TestPort \/ AskPort \/ ClosePort
    PROVE  IInv'
<1> USE DEF IInv, callerFrame
<1>1. CASE Plug
  <2>1. plugged' \in BOOLEAN
    BY <1>1, Zenon DEF Plug
  <2>2. TypeOK'
    BY <1>1, <2>1 DEF Plug, TypeOK
  <2>q. QED BY <1>1, <2>2 DEF Plug, OnlyWorker, Alive, StopIsTold, OnItsWayOut, NoHandleIsLost,
                              StopFailsIfOutlasted
<1>2. CASE StopListening
  <2>1. isListening' \in BOOLEAN
    BY <1>2, Zenon DEF StopListening
  <2>2. TypeOK'
    BY <1>2, <2>1 DEF StopListening, TypeOK, Stops
  <2>q. QED BY <1>2, <2>2 DEF StopListening, OnlyWorker, Alive, StopIsTold, OnItsWayOut,
                              NoHandleIsLost, StopFailsIfOutlasted, Joined
<1>3. CASE TestPort \/ AskPort \/ ClosePort
  <2>1. TypeOK'
    BY <1>3 DEF TestPort, AskPort, ClosePort, TypeOK, Stops
  <2>2. /\ UNCHANGED <<isListening, serialConn, reader, worker, overlap, outlasted>>
        /\ caller \in Joined /\ caller' \in Joined
        /\ open' = open \/ open' = open \ {serialConn}
    BY <1>3 DEF TestPort, AskPort, ClosePort, Joined
  <2>3. OnlyWorker' /\ StopIsTold'
    BY <2>2 DEF OnlyWorker, StopIsTold, Alive
  <2>4. NoHandleIsLost'
    <3>1. caller' \in {"stopped", "failed"} =>
              serialConn = 0 \/ serialConn \notin open \/ open' = open \ {serialConn}
      BY <1>3 DEF TestPort, AskPort, ClosePort
    <3>2. 0 \notin open
      BY DEF TypeOK, Handles
    <3>q. QED BY <2>2, <3>1, <3>2 DEF NoHandleIsLost
  <2>5. OnItsWayOut'
    <3>1. caller' \in {"asking", "shutting"} => serialConn # 0
      BY <1>3 DEF TestPort, AskPort, ClosePort
    <3>q. QED BY <2>2, <3>1 DEF OnItsWayOut
  <2>6. StopFailsIfOutlasted'
    <3>1. caller' = "failed" => caller \in {"asking", "shutting"} /\ serialConn = 0
      BY <1>3 DEF TestPort, AskPort, ClosePort
    <3>q. QED BY <2>2, <3>1 DEF OnItsWayOut, StopFailsIfOutlasted, TypeOK
  <2>q. QED BY <2>1, <2>3, <2>4, <2>5, <2>6
<1>q. QED BY <1>1, <1>2, <1>3

-----------------------------------------------------------------------------
(* The steps of a thread.                                                  *)

LEMMA ReaderTypes ==
    ASSUME TypeOK, NEW t \in Threads, ReaderNext(t)
    PROVE  TypeOK'
<1> USE DEF TypeOK, readerFrame, Goes, Places
<1>1. CASE TestListening(t)
  BY <1>1 DEF TestListening
<1>2. CASE TestConnection(t) \/ AskConnection(t)
  BY <1>2 DEF TestConnection, AskConnection, Connects
<1>3. CASE OpenPort(t)
  BY <1>3 DEF OpenPort, Handles
<1>4. CASE BeginRead(t)
  BY <1>4 DEF BeginRead
<1>5. CASE OpenFails(t) \/ LineRead(t) \/ NothingRead(t) \/ ReadFails(t) \/ EndPause(t)
  BY <1>5 DEF OpenFails, LineRead, NothingRead, ReadFails, EndPause
<1>6. CASE Ingest(t) \/ Emulate(t)
  <2>1. odd' \in BOOLEAN
    BY <1>6, Zenon DEF Ingest, Emulate
  <2>q. QED BY <1>6, <2>1 DEF Ingest, Emulate
<1>7. CASE TestDropped(t) \/ CloseDropped(t) \/ ForgetPort(t)
  BY <1>7 DEF TestDropped, CloseDropped, ForgetPort
<1>q. QED BY <1>1, <1>2, <1>3, <1>4, <1>5, <1>6, <1>7 DEF ReaderNext

\* What every step of a thread has in common: it moves a living thread, tests
\* is_listening before it goes on, opens a port only from "opening", and forgets one only
\* after closing it.
LEMMA ReaderMoves ==
    ASSUME TypeOK, NEW t \in Threads, ReaderNext(t)
    PROVE  /\ reader[t] \notin {"unborn", "ended"}
           /\ \A u \in Threads \ {t} : reader'[u] = reader[u]
           /\ UNCHANGED <<isListening, worker, caller, overlap, outlasted>>
           /\ reader[t] = "test" /\ ~isListening => reader'[t] = "ended"
           /\ reader[t] = "pause" => reader'[t] = "test"
           /\ reader[t] = "reading" => reader'[t] \in {"ingest", "test", "drop"}
           /\ reader[t] = "ingest" => reader'[t] = "test"
           /\ reader[t] = "drop" => reader'[t] \in {"pause", "closing"}
           /\ reader[t] = "closing" => reader'[t] = "forgetting"
           /\ reader[t] = "forgetting" => reader'[t] = "pause"
           /\ reader'[t] = "forgetting" => open' = open \ {serialConn}
           /\ reader'[t] = "opening" => serialConn \notin open /\ open' = open /\ serialConn' = serialConn
           /\ \/ open' = open /\ serialConn' = serialConn
              \/ open' = open \ {serialConn} /\ serialConn' = serialConn
              \/ reader[t] = "forgetting" /\ open' = open /\ serialConn' = 0
              \/ reader[t] = "opening" /\ open' = open \cup {serialConn'}
           /\ odd' # odd => reader[t] \in {"ingest", "emulating"}
<1> USE DEF TypeOK, readerFrame, Goes
<1>1. CASE TestListening(t)
  BY <1>1 DEF TestListening
<1>2. CASE TestConnection(t) \/ AskConnection(t)
  <2>1. 0 \notin open
    BY DEF Handles
  <2>2. CASE TestConnection(t)
    BY <2>1, <2>2 DEF TestConnection, Connects
  <2>3. CASE AskConnection(t)
    BY <2>3 DEF AskConnection, Connects
  <2>q. QED BY <1>2, <2>2, <2>3
<1>3. CASE OpenPort(t)
  BY <1>3 DEF OpenPort
<1>4. CASE BeginRead(t)
  BY <1>4 DEF BeginRead
<1>5. CASE OpenFails(t)
  BY <1>5 DEF OpenFails
<1>6. CASE LineRead(t) \/ NothingRead(t) \/ ReadFails(t) \/ EndPause(t)
  BY <1>6 DEF LineRead, NothingRead, ReadFails, EndPause
<1>7. CASE Ingest(t)
  BY <1>7 DEF Ingest
<1>8. CASE Emulate(t)
  BY <1>8 DEF Emulate
<1>9. CASE TestDropped(t) \/ CloseDropped(t) \/ ForgetPort(t)
  BY <1>9 DEF TestDropped, CloseDropped, ForgetPort
<1>q. QED BY <1>1, <1>2, <1>3, <1>4, <1>5, <1>6, <1>7, <1>8, <1>9 DEF ReaderNext

LEMMA ReaderStep ==
    ASSUME IInv, NEW t \in Threads, ReaderNext(t)
    PROVE  IInv'
<1> USE DEF IInv
<1>1. TypeOK'
  BY ReaderTypes
<1>2. UNCHANGED <<isListening, worker, caller, overlap, outlasted>>
  BY ReaderMoves
<1>3. StopIsTold'
  BY <1>2 DEF StopIsTold
<1>4. ASSUME ~overlap
      PROVE  /\ t = worker /\ \A u \in Threads \ {t} : reader[u] \in {"unborn", "ended"}
             /\ open \subseteq {serialConn}
  BY <1>4, ReaderMoves DEF OnlyWorker, Alive, NoHandleIsLost
<1>5. ~overlap => open' \subseteq {serialConn'}
  <2>1. CASE open' = open /\ serialConn' = serialConn
    BY <1>4, <2>1
  <2>2. CASE open' = open \ {serialConn} /\ serialConn' = serialConn
    BY <1>4, <2>2
  <2>3. CASE reader[t] = "opening" /\ open' = open \cup {serialConn'}
    BY <2>3 DEF OnlyWorker
  <2>4. CASE reader[t] = "forgetting" /\ open' = open /\ serialConn' = 0
    BY <2>4 DEF OnlyWorker
  <2>q. QED BY <2>1, <2>2, <2>3, <2>4, ReaderMoves
<1>6. OnlyWorker'
  <2> SUFFICES ASSUME ~overlap
               PROVE  /\ \A u \in Threads : Alive(u)' => u = worker
                      /\ \A u \in Threads : reader'[u] \in {"opening", "forgetting"} => open' = {}
    BY <1>2 DEF OnlyWorker
  <2>1. \A u \in Threads \ {t} : reader'[u] \in {"unborn", "ended"}
    BY <1>4, ReaderMoves
  <2>2. reader'[t] \in {"opening", "forgetting"} => open' = {}
    BY <1>4, ReaderMoves
  <2>q. QED BY <1>4, <2>1, <2>2 DEF Alive
<1>7. OnItsWayOut'
  <2> SUFFICES ASSUME ~overlap, caller \in Joined
               PROVE  OnItsWayOut'
    BY <1>2 DEF OnItsWayOut
  <2>1. ~isListening
    BY DEF StopIsTold
  <2>2. \A u \in Threads \ {t} : reader'[u] \in {"unborn", "ended"}
    BY <1>4, ReaderMoves
  <2>3. outlasted # "opening" => reader'[t] \in Leaving
    BY <2>1, ReaderMoves DEF OnItsWayOut, Leaving, Resting
  <2>4. ASSUME outlasted \in {"nothing", "pause"}
        PROVE  /\ reader'[t] \in Resting
               /\ caller \in {"asking", "shutting"} => serialConn' # 0
    <3>1. reader[t] \in Resting
      BY <2>4 DEF OnItsWayOut
    <3>2. reader'[t] \in Resting /\ serialConn' = serialConn
      BY <2>1, <3>1, ReaderMoves DEF Resting
    <3>q. QED BY <2>4, <3>2 DEF OnItsWayOut
  <2>q. QED BY <1>2, <2>2, <2>3, <2>4 DEF OnItsWayOut, Leaving, Resting
<1>8. NoHandleIsLost'
  <2> SUFFICES ASSUME ~overlap, caller \in {"stopped", "failed"}, outlasted # "opening"
               PROVE  open' = {}
    BY <1>2, <1>5 DEF NoHandleIsLost
  <2>1. open = {} /\ reader[t] # "opening"
    BY DEF NoHandleIsLost, OnItsWayOut, Joined, Leaving, Resting
  <2>q. QED BY <2>1, ReaderMoves
<1>9. StopFailsIfOutlasted'
  BY <1>2 DEF StopFailsIfOutlasted
<1>q. QED BY <1>1, <1>3, <1>6, <1>7, <1>8, <1>9

-----------------------------------------------------------------------------
(* The theorems.                                                           *)

LEMMA NextInv == IInv /\ [Next]_vars => IInv'
<1> SUFFICES ASSUME IInv, [Next]_vars PROVE IInv'
  OBVIOUS
<1>1. CASE Plug \/ CallerNext
  BY <1>1, StartStep, JoinStep, CallerStep DEF CallerNext, StopNext
<1>2. CASE \E t \in Threads : ReaderNext(t)
  BY <1>2, ReaderStep
<1>3. CASE UNCHANGED vars
  BY <1>3 DEF vars, IInv, TypeOK, OnlyWorker, Alive, StopIsTold, OnItsWayOut, NoHandleIsLost,
               StopFailsIfOutlasted
<1>q. QED BY <1>1, <1>2, <1>3 DEF Next

\* Handles (connect, the exception handler and stop_listening): while no thread was
\* started over another, the only open handle is the one in serial_connection, after a
\* stop that no open outlasted there is none, and a stop fails on a port that vanishes
\* under it only if a thread outlasted its join in an open or a read.
THEOREM HandlesCorrect == Spec => []Safety
<1>1. IInv => Safety
  BY DEF IInv, Safety
<1>q. QED BY InitInv, NextInv, <1>1, PTL DEF Spec

\* stop_listening: after it has returned the router gets no line from a thread that had
\* ended or was in the pause before a reconnect.
THEOREM StopCorrect == Spec => NothingAfterStop
<1>1. IInv /\ [Next]_vars =>
          [(caller = "stopped" /\ ~overlap /\ outlasted \in {"nothing", "pause"})
              => odd' = odd]_vars
  <2> SUFFICES ASSUME IInv, Next, caller = "stopped", ~overlap, outlasted \in {"nothing", "pause"}
               PROVE  odd' = odd
    OBVIOUS
  <2>1. CASE Plug \/ CallerNext
    BY <2>1 DEF Plug, CallerNext, StopNext, StartListening, StopListening, Join, TestPort,
                AskPort, ClosePort, callerFrame
  <2>2. CASE \E t \in Threads : ReaderNext(t)
    <3>1. PICK t \in Threads : ReaderNext(t)
      BY <2>2
    <3>2. reader[t] \in {"unborn", "ended", "pause", "test"} /\ TypeOK
      BY DEF IInv, OnItsWayOut, Joined, Resting
    <3>q. QED BY <3>1, <3>2, ReaderMoves
  <2>q. QED BY <2>1, <2>2 DEF Next
<1>q. QED BY InitInv, NextInv, <1>1, PTL DEF Spec, NothingAfterStop
=============================================================================
