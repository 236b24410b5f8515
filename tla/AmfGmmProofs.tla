---------------------------- MODULE AmfGmmProofs ----------------------------
(***************************************************************************)
(* Proofs about AmfGmm: types, that nobody gets past authentication        *)
(* without a confirmation of the AUSF, that timers follow the states, when *)
(* a callback finds its timer gone, and that GmmLife is implemented.       *)
(*                                                                         *)
(* One invariant serves them all (Safe).  While the AMF runs, Sound holds: *)
(* a security context and a T3550 come from a confirmation, an AmfUe that  *)
(* points to no timer has counted nothing, and, unless an identity came    *)
(* unasked (Ordered), a timer belongs to the state that started it and is  *)
(* not running when an identity is awaited.                                *)
(***************************************************************************)
EXTENDS AmfGmm, TLAPS

\* The types without the bound on lost timers, which Leave imposes.
TimerShape == [ptr : BOOLEAN, armed : BOOLEAN, stray : Nat, running : 0..MaxRunning,
               retry : Nat, lost : BOOLEAN]

UeShape == [
    state : GmmStates, alive : BOOLEAN, conn : BOOLEAN, pooled : BOOLEAN, ident : BOOLEAN,
    guti : BOOLEAN, pei : BOOLEAN, sec : BOOLEAN, ctx : {"nil", "aka", "eap"}, synch : 0..1,
    req : {"none", "initial", "update"}, t3550 : TimerShape, t3560 : TimerShape,
    panic : {"no", "message", "abort", "reset3550", "reset3560"},
    asked : BOOLEAN, unasked : BOOLEAN, confirmed : BOOLEAN]

Past == {"SecurityMode", "ContextSetup", "Registered", "DeregistrationInitiated"}

\* Some timer of this kind will expire, or has.
Used(x) == x.armed \/ x.stray > 0 \/ x.running > 0

\* The counter is within its maximum, and without a pointer there is nothing
\* armed and nothing counted; what may still call back was lost.
Sane(x, max) ==
    /\ x.retry <= max
    /\ ~x.ptr => ~x.armed /\ x.retry = 0 /\ (x.lost \/ x.stray + x.running = 0)

Ordered(a) ==
    /\ a.t3550.stray = 0 /\ a.t3560.stray = 0
    /\ a.t3550.ptr => a.state = "ContextSetup"
    /\ a.t3560.ptr => a.state \in {"Authentication", "SecurityMode"}
    /\ a.asked => ~a.t3550.ptr /\ ~a.t3560.ptr

Sound(a) ==
    /\ a \in UeShape
    /\ a.panic \notin {"reset3550", "reset3560"}
    /\ a.state \in Past => a.confirmed
    /\ a.sec => a.confirmed
    /\ a.t3550.ptr \/ Used(a.t3550) => a.confirmed
    /\ Sane(a.t3550, MaxT3550RetryTimes) /\ Sane(a.t3560, MaxT3560RetryTimes)
    /\ a.unasked \/ Ordered(a)

\* What a panic may leave.
Wreck(a) ==
    /\ a \in UeShape
    /\ a.state \in Past => a.confirmed
    /\ a.t3550.retry <= MaxT3550RetryTimes + 1 /\ a.t3560.retry <= MaxT3560RetryTimes
    /\ a.panic = "reset3550" => a.t3550.lost
    /\ a.panic = "reset3560" => a.t3560.lost

Safe(a) == Wreck(a) /\ (a.panic = "no" => Sound(a))

\* No timer of the AmfUe runs, or its identities came out of order.
Idle(a) == a.unasked \/ (~a.t3550.ptr /\ ~a.t3560.ptr)

\* b is the same AmfUe for GmmLife.
Stays(a, b) == b.alive = a.alive /\ b.unasked = a.unasked

Busy == {"Authentication", "SecurityMode", "ContextSetup"}

----------------------------------------------------------------------------
(* The timers.                                                             *)

LEMMA StartedSane ==
    ASSUME NEW x \in TimerShape, NEW max \in Nat
    PROVE  /\ Started(x) \in TimerShape /\ Sane(Started(x), max) /\ Started(x).ptr
           /\ ~x.armed => Started(x).stray = x.stray
<1> DEFINE n == IF x.armed THEN x.stray + 1 ELSE x.stray
           l == Live(x)
           y == [x EXCEPT !.ptr = TRUE, !.armed = TRUE, !.retry = 0, !.lost = l, !.stray = n]
<1>1. l \in BOOLEAN
    BY DEF Live
<1>2. n \in Nat /\ (~x.armed => n = x.stray)
    BY DEF TimerShape
<1>3. Started(x) = y
    BY Zenon DEF Started
<1> HIDE DEF l, n
<1>4. y \in TimerShape
    BY <1>1, <1>2, Zenon DEF TimerShape
<1>5. y.ptr /\ y.retry = 0 /\ y.stray = n
    BY <1>1, <1>2 DEF TimerShape
<1> HIDE DEF y
<1> QED BY <1>2, <1>3, <1>4, <1>5 DEF Sane

LEMMA StoppedSane ==
    ASSUME NEW x \in TimerShape, NEW max \in Nat
    PROVE  /\ Stopped(x) \in TimerShape /\ Sane(Stopped(x), max)
           /\ ~Stopped(x).ptr /\ Stopped(x).stray = x.stray
           /\ Used(Stopped(x)) => Used(x)
<1> DEFINE l == x.stray + x.running > 0
           y == [x EXCEPT !.ptr = FALSE, !.armed = FALSE, !.retry = 0, !.lost = l]
<1>1. l \in BOOLEAN
    OBVIOUS
<1>2. Stopped(x) = y
    BY Zenon DEF Stopped
<1>3. x.stray \in Nat /\ x.running \in Nat /\ (l \/ x.stray + x.running = 0)
    BY TimersAssumption DEF TimerShape
<1> HIDE DEF l
<1>4. y \in TimerShape
    BY <1>1, Zenon DEF TimerShape
<1>5. ~y.ptr /\ ~y.armed /\ y.lost = l
    BY <1>1 DEF TimerShape
<1>6. y.stray = x.stray /\ y.running = x.running /\ y.retry = 0
    BY <1>1 DEF TimerShape
<1> HIDE DEF y
<1> QED BY <1>2, <1>3, <1>4, <1>5, <1>6 DEF Sane, Used

LEMMA ExpiredSane ==
    ASSUME NEW x \in TimerShape, NEW max \in Nat, Sane(x, max), x.running < MaxRunning
    PROVE  /\ x.armed => /\ OwnExpired(x) \in TimerShape /\ Sane(OwnExpired(x), max)
                         /\ OwnExpired(x).ptr = x.ptr /\ OwnExpired(x).stray = x.stray
           /\ x.stray > 0 => /\ StrayExpired(x) \in TimerShape /\ Sane(StrayExpired(x), max)
                             /\ StrayExpired(x).ptr = x.ptr
<1> DEFINE m == x.running + 1
           n == x.stray - 1
           y == [x EXCEPT !.armed = FALSE, !.running = m]
           z == [x EXCEPT !.stray = n, !.running = m]
<1>1. m \in 0..MaxRunning /\ (x.stray > 0 => n \in Nat) /\ (x.stray > 0 => n + m = x.stray + x.running)
    BY TimersAssumption DEF TimerShape
<1>2. OwnExpired(x) = y /\ StrayExpired(x) = z
    BY Zenon DEF OwnExpired, StrayExpired
<1>3. x.stray \in Nat /\ x.running \in Nat /\ x.retry \in Nat
    BY TimersAssumption DEF TimerShape
<1> HIDE DEF m, n
<1>4. y \in TimerShape /\ (x.stray > 0 => z \in TimerShape)
    BY <1>1, Zenon DEF TimerShape
<1>5. y.ptr = x.ptr /\ z.ptr = x.ptr /\ z.armed = x.armed /\ y.lost = x.lost /\ z.lost = x.lost
    BY <1>1, Zenon DEF TimerShape
<1>6. y.stray = x.stray /\ y.retry = x.retry /\ z.retry = x.retry /\ z.stray = n /\ z.running = m
    BY <1>1 DEF TimerShape
<1> HIDE DEF y, z
<1>7. x.armed => x.ptr
    BY DEF Sane
<1>8. x.armed => Sane(y, max)
    BY <1>5, <1>6, <1>7 DEF Sane
<1>9. x.stray > 0 => Sane(z, max)
    BY <1>1, <1>3, <1>5, <1>6 DEF Sane
<1> QED BY <1>2, <1>4, <1>5, <1>6, <1>8, <1>9

LEMMA CountedShape ==
    ASSUME NEW x \in TimerShape, x.running > 0
    PROVE  /\ Counted(x) \in TimerShape
           /\ Counted(x).retry = x.retry + 1 /\ Counted(x).stray = x.stray
           /\ Counted(x).ptr = x.ptr /\ Counted(x).lost = x.lost
<1> DEFINE m == x.running - 1
           n == x.retry + 1
           y == [x EXCEPT !.running = m, !.retry = n]
<1>1. m \in 0..MaxRunning /\ n \in Nat
    BY TimersAssumption DEF TimerShape
<1>2. Counted(x) = y
    BY Zenon DEF Counted
<1> HIDE DEF m
<1>3. y \in TimerShape
    BY <1>1, Zenon DEF TimerShape
<1>4. y.retry = n /\ y.stray = x.stray /\ y.ptr = x.ptr /\ y.lost = x.lost
    BY <1>1, Zenon DEF TimerShape
<1> QED BY <1>2, <1>3, <1>4, Zenon

LEMMA ResetShape ==
    ASSUME NEW x \in TimerShape
    PROVE  /\ Reset(x) \in TimerShape
           /\ Reset(x).ptr = x.ptr /\ Reset(x).retry = x.retry /\ Reset(x).stray = x.stray
<1>1. Reset(x) \in TimerShape
    BY DEF TimerShape, Reset
<1> QED BY <1>1, Zenon DEF TimerShape, Reset

----------------------------------------------------------------------------
(* The functions of the code preserve Sound.                               *)

\* A record that agrees in the timers and what they depend on.
LEMMA SoundAs ==
    ASSUME NEW a, Sound(a), NEW b \in UeShape,
           b.confirmed = a.confirmed, b.sec = a.sec, b.t3550 = a.t3550, b.t3560 = a.t3560,
           Stays(a, b), b.asked = a.asked, b.panic \in {"no", "message", "abort"},
           \/ b.state = a.state
           \/ Idle(a) /\ (b.state \notin Past \/ a.confirmed)
    PROVE  Sound(b) /\ (Idle(a) => Idle(b))
<1>1. Idle(a) => Idle(b)
    BY DEF Idle, Stays
<1>2. b.unasked \/ Ordered(b)
    BY DEF Sound, Ordered, Idle, Stays
<1> QED BY <1>1, <1>2 DEF Sound

LEMMA SoundPanic ==
    ASSUME NEW a, Sound(a), NEW where \in {"message", "abort"}
    PROVE  /\ Sound(Panic(a, where)) /\ Stays(a, Panic(a, where))
           /\ Panic(a, where).state = a.state
<1> DEFINE b == [a EXCEPT !.panic = where]
<1>1. a \in UeShape
    BY DEF Sound
<1>2. b \in UeShape
    BY <1>1, Zenon DEF UeShape
<1>3. /\ b.confirmed = a.confirmed /\ b.sec = a.sec /\ b.t3550 = a.t3550 /\ b.t3560 = a.t3560
      /\ b.asked = a.asked /\ b.state = a.state /\ b.panic = where
    BY <1>1 DEF UeShape
<1>4. Stays(a, b)
    BY <1>1 DEF UeShape, Stays
<1>5. Panic(a, where) = b
    BY DEF Panic
<1> HIDE DEF b
<1> QED BY <1>2, <1>3, <1>4, <1>5, SoundAs

\* A timer of a Sound record.
LEMMA SoundTimers ==
    ASSUME NEW a, Sound(a)
    PROVE  /\ a \in UeShape /\ a.t3550 \in TimerShape /\ a.t3560 \in TimerShape
           /\ a.panic \in {"no", "message", "abort"}
           /\ MaxT3550RetryTimes \in Nat /\ MaxT3560RetryTimes \in Nat
           /\ Sane(a.t3550, MaxT3550RetryTimes) /\ Sane(a.t3560, MaxT3560RetryTimes)
    BY GmmAssumption DEF Sound, UeShape

LEMMA SoundStop ==
    ASSUME NEW a, Sound(a)
    PROVE  /\ Sound(StopT3550(a)) /\ Sound(StopT3560(a))
           /\ Stays(a, StopT3550(a)) /\ Stays(a, StopT3560(a))
           /\ StopT3550(a).state = a.state /\ StopT3560(a).state = a.state
           /\ StopT3550(a).confirmed = a.confirmed /\ StopT3560(a).confirmed = a.confirmed
           /\ StopT3560(a).ctx = a.ctx
           /\ a.state \in {"Authentication", "SecurityMode"} => Idle(StopT3560(a))
           /\ a.state = "ContextSetup" => Idle(StopT3550(a))
<1> DEFINE x == Stopped(a.t3550)
           y == Stopped(a.t3560)
           b == [a EXCEPT !.t3550 = x]
           c == [a EXCEPT !.t3560 = y]
<1>1. /\ a \in UeShape
      /\ x \in TimerShape /\ Sane(x, MaxT3550RetryTimes) /\ ~x.ptr /\ x.stray = a.t3550.stray
      /\ y \in TimerShape /\ Sane(y, MaxT3560RetryTimes) /\ ~y.ptr /\ y.stray = a.t3560.stray
      /\ Used(x) => Used(a.t3550)
    BY SoundTimers, StoppedSane
<1>2. StopT3550(a) = b /\ StopT3560(a) = c
    BY DEF StopT3550, StopT3560
<1> HIDE DEF x, y
<1>3. b \in UeShape /\ c \in UeShape
    BY <1>1, Zenon DEF UeShape
<1>4. /\ b.confirmed = a.confirmed /\ b.sec = a.sec /\ b.t3550 = x /\ b.t3560 = a.t3560
      /\ b.asked = a.asked /\ b.state = a.state /\ b.panic = a.panic
      /\ b.unasked = a.unasked /\ b.alive = a.alive
    BY <1>1, Zenon DEF UeShape
<1>5. /\ c.confirmed = a.confirmed /\ c.sec = a.sec /\ c.t3550 = a.t3550 /\ c.t3560 = y
      /\ c.asked = a.asked /\ c.state = a.state /\ c.panic = a.panic /\ c.ctx = a.ctx
      /\ c.unasked = a.unasked /\ c.alive = a.alive
    BY <1>1, Zenon DEF UeShape
<1> HIDE DEF b, c
<1>6. Sound(b)
  <2>1. b.unasked \/ Ordered(b)
      BY <1>1, <1>4 DEF Sound, Ordered
  <2> QED BY <1>1, <1>3, <1>4, <2>1 DEF Sound
<1>7. Sound(c)
  <2>1. c.unasked \/ Ordered(c)
      BY <1>1, <1>5 DEF Sound, Ordered
  <2> QED BY <1>1, <1>3, <1>5, <2>1 DEF Sound
<1>8. /\ a.state \in {"Authentication", "SecurityMode"} => Idle(c)
      /\ a.state = "ContextSetup" => Idle(b)
    BY <1>1, <1>4, <1>5 DEF Sound, Ordered, Idle
<1> QED BY <1>2, <1>4, <1>5, <1>6, <1>7, <1>8 DEF Stays

LEMMA SoundIdentityRequest ==
    ASSUME NEW a, Sound(a), Idle(a)
    PROVE  /\ Sound(SendIdentityRequest(a)) /\ Stays(a, SendIdentityRequest(a))
           /\ SendIdentityRequest(a).state = a.state
<1> DEFINE b == [a EXCEPT !.asked = TRUE]
<1>1. a \in UeShape
    BY DEF Sound
<1>2. b \in UeShape
    BY <1>1, Zenon DEF UeShape
<1>3. /\ b.confirmed = a.confirmed /\ b.sec = a.sec /\ b.t3550 = a.t3550 /\ b.t3560 = a.t3560
      /\ b.state = a.state /\ b.panic = a.panic /\ b.unasked = a.unasked /\ b.alive = a.alive
    BY <1>1, Zenon DEF UeShape
<1>4. SendIdentityRequest(a) = b
    BY DEF SendIdentityRequest
<1> HIDE DEF b
<1>5. b.unasked \/ Ordered(b)
    BY <1>3 DEF Sound, Ordered, Idle
<1> QED BY <1>2, <1>3, <1>4, <1>5 DEF Sound, Stays

\* T3560 is started in the states that it belongs to.
LEMMA SoundStart3560 ==
    ASSUME NEW a, Sound(a), Idle(a), a.state \in {"Authentication", "SecurityMode"},
           NEW b \in UeShape, b.t3560 = Started(a.t3560), b.t3550 = a.t3550,
           b.sec => a.confirmed, b.confirmed = a.confirmed, b.state = a.state,
           b.asked = FALSE, b.panic = a.panic, Stays(a, b)
    PROVE  Sound(b)
<1>1. /\ Sane(b.t3560, MaxT3560RetryTimes)
      /\ ~a.t3560.armed => b.t3560.stray = a.t3560.stray
    BY SoundTimers, StartedSane
<1>2. ~a.t3560.ptr => ~a.t3560.armed
    BY DEF Sound, Sane
<1>3. b.unasked \/ Ordered(b)
    BY <1>1, <1>2 DEF Sound, Ordered, Idle, Stays
<1> QED BY <1>1, <1>3 DEF Sound

LEMMA SoundAuthenticationRequest ==
    ASSUME NEW a, Sound(a), Idle(a), a.state = "Authentication"
    PROVE  /\ Sound(SendAuthenticationRequest(a)) /\ Stays(a, SendAuthenticationRequest(a))
           /\ SendAuthenticationRequest(a).state = a.state
<1> DEFINE x == Started(a.t3560)
           b == [a EXCEPT !.t3560 = x, !.asked = FALSE]
<1>1. a \in UeShape /\ x \in TimerShape
    BY SoundTimers, StartedSane
<1>2. SendAuthenticationRequest(a) = IF a.ctx = "nil" THEN a ELSE b
    BY DEF SendAuthenticationRequest
<1>3. x = Started(a.t3560)
    OBVIOUS
<1> HIDE DEF x
<1>4. b \in UeShape
    BY <1>1, Zenon DEF UeShape
<1>5. /\ b.confirmed = a.confirmed /\ b.sec = a.sec /\ b.t3550 = a.t3550 /\ b.t3560 = x
      /\ b.state = a.state /\ b.panic = a.panic /\ b.unasked = a.unasked /\ b.alive = a.alive
      /\ b.asked = FALSE
    BY <1>1, Zenon DEF UeShape
<1> HIDE DEF b
<1>6. Sound(b)
    BY <1>3, <1>4, <1>5, SoundStart3560 DEF Stays, Sound
<1> QED BY <1>2, <1>5, <1>6 DEF Stays

LEMMA SoundSecurityModeCommand ==
    ASSUME NEW a, Sound(a), Idle(a), a.confirmed, a.state = "SecurityMode"
    PROVE  /\ Sound(SendSecurityModeCommand(a)) /\ Stays(a, SendSecurityModeCommand(a))
           /\ SendSecurityModeCommand(a).state = a.state
<1> DEFINE x == Started(a.t3560)
           b == [a EXCEPT !.sec = TRUE, !.t3560 = x, !.asked = FALSE]
<1>1. a \in UeShape /\ x \in TimerShape
    BY SoundTimers, StartedSane
<1>2. SendSecurityModeCommand(a) = b
    BY DEF SendSecurityModeCommand
<1>3. x = Started(a.t3560)
    OBVIOUS
<1> HIDE DEF x
<1>4. b \in UeShape
    BY <1>1, Zenon DEF UeShape
<1>5. /\ b.confirmed = a.confirmed /\ b.t3550 = a.t3550 /\ b.t3560 = x
      /\ b.state = a.state /\ b.panic = a.panic /\ b.unasked = a.unasked /\ b.alive = a.alive
      /\ b.asked = FALSE
    BY <1>1, Zenon DEF UeShape
<1> HIDE DEF b
<1>6. Sound(b)
    BY <1>3, <1>4, <1>5, SoundStart3560 DEF Stays
<1> QED BY <1>2, <1>5, <1>6 DEF Stays

LEMMA SoundRegistrationAccept ==
    ASSUME NEW a, Sound(a), Idle(a), a.confirmed, a.state = "ContextSetup"
    PROVE  /\ Sound(SendRegistrationAccept(a)) /\ Stays(a, SendRegistrationAccept(a))
           /\ SendRegistrationAccept(a).state = a.state
<1> DEFINE x == Started(a.t3550)
           b == [a EXCEPT !.t3550 = x, !.asked = FALSE]
<1>1. /\ a \in UeShape /\ x \in TimerShape /\ Sane(x, MaxT3550RetryTimes)
      /\ ~a.t3550.armed => x.stray = a.t3550.stray
    BY SoundTimers, StartedSane
<1>2. SendRegistrationAccept(a) = b
    BY DEF SendRegistrationAccept
<1> HIDE DEF x
<1>4. b \in UeShape
    BY <1>1, Zenon DEF UeShape
<1>5. /\ b.confirmed = a.confirmed /\ b.sec = a.sec /\ b.t3550 = x /\ b.t3560 = a.t3560
      /\ b.state = a.state /\ b.panic = a.panic /\ b.unasked = a.unasked /\ b.alive = a.alive
      /\ b.asked = FALSE
    BY <1>1, Zenon DEF UeShape
<1> HIDE DEF b
<1>6. ~a.t3550.ptr => ~a.t3550.armed
    BY DEF Sound, Sane
<1>7. b.unasked \/ Ordered(b)
    BY <1>1, <1>5, <1>6 DEF Sound, Ordered, Idle
<1>8. Sound(b)
    BY <1>1, <1>4, <1>5, <1>7 DEF Sound
<1> QED BY <1>2, <1>5, <1>8 DEF Stays

\* A change of what the timers do not depend on.
LEMMA SoundOther ==
    ASSUME NEW a, Sound(a), NEW b \in UeShape,
           b.confirmed = a.confirmed, b.sec = a.sec, b.t3550 = a.t3550, b.t3560 = a.t3560,
           b.alive = a.alive, b.unasked = a.unasked, b.asked = a.asked, b.panic = a.panic,
           b.state = a.state
    PROVE  Sound(b) /\ Stays(a, b) /\ (Idle(a) => Idle(b))
<1>1. Stays(a, b)
    BY DEF Stays
<1>2. b.panic \in {"no", "message", "abort"}
    BY SoundTimers
<1> QED BY <1>1, <1>2, SoundAs

LEMMA SoundClear ==
    ASSUME NEW a, Sound(a)
    PROVE  /\ Sound(ClearRegistrationRequestData(a)) /\ Stays(a, ClearRegistrationRequestData(a))
           /\ ClearRegistrationRequestData(a).state = a.state
<1> DEFINE b == [a EXCEPT !.req = "none", !.guti = FALSE, !.synch = 0]
<1>1. a \in UeShape /\ 0 \in 0..1
    BY DEF Sound
<1>2. b \in UeShape
    BY <1>1, Zenon DEF UeShape
<1>3. /\ b.confirmed = a.confirmed /\ b.sec = a.sec /\ b.t3550 = a.t3550 /\ b.t3560 = a.t3560
      /\ b.state = a.state /\ b.panic = a.panic /\ b.unasked = a.unasked /\ b.alive = a.alive
      /\ b.asked = a.asked
    BY <1>1, Zenon DEF UeShape
<1>4. ClearRegistrationRequestData(a) = IF a.conn THEN b ELSE Panic(b, "abort")
    BY DEF ClearRegistrationRequestData
<1> HIDE DEF b
<1>5. Sound(b) /\ Stays(a, b)
    BY <1>2, <1>3, SoundOther
<1>6. Sound(Panic(b, "abort")) /\ Stays(b, Panic(b, "abort")) /\ Panic(b, "abort").state = a.state
    BY <1>3, <1>5, SoundPanic
<1> QED BY <1>3, <1>4, <1>5, <1>6 DEF Stays

\* The AmfUe is in another state, and no timer of it runs.
LEMMA SoundState ==
    ASSUME NEW a, Sound(a), Idle(a), NEW s \in GmmStates, s \notin Past \/ a.confirmed
    PROVE  /\ Sound([a EXCEPT !.state = s]) /\ Idle([a EXCEPT !.state = s])
           /\ Stays(a, [a EXCEPT !.state = s])
           /\ [a EXCEPT !.state = s].state = s /\ [a EXCEPT !.state = s].confirmed = a.confirmed
<1> DEFINE b == [a EXCEPT !.state = s]
<1>1. a \in UeShape /\ a.panic \in {"no", "message", "abort"}
    BY SoundTimers
<1>2. b \in UeShape
    BY <1>1, Zenon DEF UeShape
<1>3. /\ b.confirmed = a.confirmed /\ b.sec = a.sec /\ b.t3550 = a.t3550 /\ b.t3560 = a.t3560
      /\ b.panic = a.panic /\ b.unasked = a.unasked /\ b.alive = a.alive
      /\ b.asked = a.asked /\ b.state = s
    BY <1>1, Zenon DEF UeShape
<1> HIDE DEF b
<1>4. Stays(a, b)
    BY <1>3 DEF Stays
<1>5. Sound(b) /\ Idle(b)
    BY <1>1, <1>2, <1>3, <1>4, SoundAs
<1> QED BY <1>3, <1>4, <1>5 DEF b

LEMMA SoundDeregistered ==
    ASSUME NEW a, Sound(a), Idle(a)
    PROVE  /\ Sound(EnterDeregistered(a)) /\ Stays(a, EnterDeregistered(a))
           /\ EnterDeregistered(a).state = "Deregistered"
<1> DEFINE b == [a EXCEPT !.state = "Deregistered"]
<1>1. "Deregistered" \in GmmStates /\ "Deregistered" \notin Past
    BY DEF GmmStates, Past
<1>2. Sound(b) /\ Stays(a, b) /\ b.state = "Deregistered"
    BY <1>1, SoundState
<1>3. EnterDeregistered(a) = ClearRegistrationRequestData(b)
    BY DEF EnterDeregistered
<1> HIDE DEF b
<1> QED BY <1>2, <1>3, SoundClear DEF Stays

LEMMA SoundRegistered ==
    ASSUME NEW a, Sound(a), Idle(a), a.confirmed
    PROVE  /\ Sound(EnterRegistered(a)) /\ Stays(a, EnterRegistered(a))
           /\ EnterRegistered(a).state = "Registered"
<1> DEFINE b == [a EXCEPT !.state = "Registered"]
<1>1. "Registered" \in GmmStates
    BY DEF GmmStates
<1>2. Sound(b) /\ Stays(a, b) /\ b.state = "Registered"
    BY <1>1, SoundState
<1>3. EnterRegistered(a) = ClearRegistrationRequestData(b)
    BY DEF EnterRegistered
<1> HIDE DEF b
<1> QED BY <1>2, <1>3, SoundClear DEF Stays

LEMMA SoundRegister ==
    ASSUME NEW a, Sound(a), Idle(a), a.confirmed, a.state = "ContextSetup", NEW out \in Outcomes
    PROVE  /\ Sound(Register(a, out)) /\ Stays(a, Register(a, out))
           /\ Register(a, out).state = "ContextSetup"
<1> DEFINE b == [a EXCEPT !.pooled = TRUE]
<1>1. a \in UeShape
    BY DEF Sound
<1>2. b \in UeShape
    BY <1>1, Zenon DEF UeShape
<1>3. /\ b.confirmed = a.confirmed /\ b.sec = a.sec /\ b.t3550 = a.t3550 /\ b.t3560 = a.t3560
      /\ b.state = a.state /\ b.panic = a.panic /\ b.unasked = a.unasked /\ b.alive = a.alive
      /\ b.asked = a.asked
    BY <1>1, Zenon DEF UeShape
<1>4. HandleInitialRegistration(a) = IF a.pei THEN SendRegistrationAccept(b) ELSE SendIdentityRequest(a)
    BY DEF HandleInitialRegistration
<1> HIDE DEF b
<1>5. Sound(b) /\ Stays(a, b) /\ Idle(b)
    BY <1>2, <1>3, SoundOther
<1>6. /\ Sound(SendIdentityRequest(a)) /\ Stays(a, SendIdentityRequest(a))
      /\ SendIdentityRequest(a).state = "ContextSetup"
      /\ Sound(SendRegistrationAccept(a)) /\ Stays(a, SendRegistrationAccept(a))
      /\ SendRegistrationAccept(a).state = "ContextSetup"
      /\ Sound(ClearRegistrationRequestData(a)) /\ Stays(a, ClearRegistrationRequestData(a))
      /\ ClearRegistrationRequestData(a).state = "ContextSetup"
    BY SoundIdentityRequest, SoundRegistrationAccept, SoundClear
<1>7. /\ Sound(SendRegistrationAccept(b)) /\ Stays(a, SendRegistrationAccept(b))
      /\ SendRegistrationAccept(b).state = "ContextSetup"
    BY <1>3, <1>5, SoundRegistrationAccept DEF Stays
<1>8. Stays(a, a)
    BY DEF Stays
<1>9. Register(a, out) \in {a, SendIdentityRequest(a), SendRegistrationAccept(a),
                            ClearRegistrationRequestData(a), SendRegistrationAccept(b)}
  <2>1. a.req \in {"none", "initial", "update"}
      BY <1>1 DEF UeShape
  <2>2. HandleMobilityAndPeriodicRegistrationUpdating(a, out) \in
            {a, SendIdentityRequest(a), SendRegistrationAccept(a), ClearRegistrationRequestData(a)}
      BY DEF HandleMobilityAndPeriodicRegistrationUpdating, Outcomes
  <2> QED BY <1>4, <2>1, <2>2 DEF Register
<1> QED BY <1>6, <1>7, <1>8, <1>9

LEMMA SoundContextSetup ==
    ASSUME NEW a, Sound(a), Idle(a), a.confirmed, NEW out \in Outcomes
    PROVE  /\ Sound(EnterContextSetup(a, out)) /\ Stays(a, EnterContextSetup(a, out))
           /\ EnterContextSetup(a, out).state = "ContextSetup"
<1> DEFINE b == [a EXCEPT !.state = "ContextSetup"]
<1>1. "ContextSetup" \in GmmStates
    BY DEF GmmStates
<1>2. Sound(b) /\ Idle(b) /\ Stays(a, b) /\ b.state = "ContextSetup" /\ b.confirmed
    BY <1>1, SoundState
<1>3. EnterContextSetup(a, out) = IF out = "error" THEN b ELSE Register(b, out)
    BY DEF EnterContextSetup
<1> HIDE DEF b
<1>4. Sound(Register(b, out)) /\ Stays(b, Register(b, out)) /\ Register(b, out).state = "ContextSetup"
    BY <1>2, SoundRegister
<1> QED BY <1>2, <1>3, <1>4 DEF Stays

LEMMA SoundSecurityMode ==
    ASSUME NEW a, Sound(a), Idle(a), a.confirmed, NEW macFailed, NEW out \in Outcomes
    PROVE  /\ Sound(EnterSecurityMode(a, macFailed, out))
           /\ Stays(a, EnterSecurityMode(a, macFailed, out))
           /\ EnterSecurityMode(a, macFailed, out).state \in Busy
<1> DEFINE b == [a EXCEPT !.state = "SecurityMode", !.ctx = "nil", !.synch = 0]
<1>1. a \in UeShape /\ 0 \in 0..1 /\ a.panic \in {"no", "message", "abort"}
    BY SoundTimers
<1>2. b \in UeShape
    BY <1>1, Zenon DEF UeShape, GmmStates
<1>3. /\ b.confirmed = a.confirmed /\ b.sec = a.sec /\ b.t3550 = a.t3550 /\ b.t3560 = a.t3560
      /\ b.panic = a.panic /\ b.unasked = a.unasked /\ b.alive = a.alive
      /\ b.asked = a.asked /\ b.state = "SecurityMode"
    BY <1>1, Zenon DEF UeShape
<1>4. \/ EnterSecurityMode(a, macFailed, out) = EnterContextSetup(b, out)
      \/ EnterSecurityMode(a, macFailed, out) = SendSecurityModeCommand(b)
    BY DEF EnterSecurityMode
<1> HIDE DEF b
<1>5. Stays(a, b)
    BY <1>3 DEF Stays
<1>6. Sound(b) /\ Idle(b) /\ b.confirmed
    BY <1>1, <1>2, <1>3, <1>5, SoundAs
<1>7. /\ Sound(EnterContextSetup(b, out)) /\ Stays(b, EnterContextSetup(b, out))
      /\ EnterContextSetup(b, out).state = "ContextSetup"
      /\ Sound(SendSecurityModeCommand(b)) /\ Stays(b, SendSecurityModeCommand(b))
      /\ SendSecurityModeCommand(b).state = "SecurityMode"
    BY <1>3, <1>6, SoundContextSetup, SoundSecurityModeCommand
<1> QED BY <1>4, <1>5, <1>7 DEF Stays, Busy

\* A UE that skips authentication has a security context.
LEMMA SoundAuthentication ==
    ASSUME NEW a, Sound(a), Idle(a), a.state = "Authentication",
           NEW macFailed, NEW ausf \in Ausf, NEW out \in Outcomes
    PROVE  /\ Sound(AuthenticationProcedure(a, macFailed, ausf, out))
           /\ Stays(a, AuthenticationProcedure(a, macFailed, ausf, out))
           /\ AuthenticationProcedure(a, macFailed, ausf, out).state \in Busy
<1> DEFINE b == [a EXCEPT !.ctx = ausf]
<1>1. a \in UeShape
    BY DEF Sound
<1>2. Sound(SendIdentityRequest(a)) /\ Stays(a, SendIdentityRequest(a))
      /\ SendIdentityRequest(a).state \in Busy /\ Stays(a, a) /\ a.state \in Busy
    BY SoundIdentityRequest DEF Busy, Stays
<1>3. SecurityContextIsValid(a, macFailed) =>
          /\ Sound(EnterSecurityMode(a, macFailed, out))
          /\ Stays(a, EnterSecurityMode(a, macFailed, out))
          /\ EnterSecurityMode(a, macFailed, out).state \in Busy
    BY SoundSecurityMode DEF Sound, SecurityContextIsValid
<1>4. ausf # "error" => /\ Sound(SendAuthenticationRequest(b)) /\ Stays(a, SendAuthenticationRequest(b))
                        /\ SendAuthenticationRequest(b).state \in Busy
  <2> SUFFICES ASSUME ausf # "error"
               PROVE  /\ Sound(SendAuthenticationRequest(b)) /\ Stays(a, SendAuthenticationRequest(b))
                      /\ SendAuthenticationRequest(b).state \in Busy
      OBVIOUS
  <2>0. ausf \in {"nil", "aka", "eap"}
      BY DEF Ausf
  <2>1. b \in UeShape
      BY <1>1, <2>0, Zenon DEF UeShape
  <2>2. /\ b.confirmed = a.confirmed /\ b.sec = a.sec /\ b.t3550 = a.t3550 /\ b.t3560 = a.t3560
        /\ b.state = a.state /\ b.panic = a.panic /\ b.unasked = a.unasked /\ b.alive = a.alive
        /\ b.asked = a.asked
      BY <1>1, Zenon DEF UeShape
  <2> HIDE DEF b
  <2>3. Sound(b) /\ Idle(b) /\ Stays(a, b)
      BY <2>1, <2>2, SoundOther
  <2> QED BY <2>2, <2>3, SoundAuthenticationRequest DEF Stays, Busy
<1>5. AuthenticationProcedure(a, macFailed, ausf, out) =
          IF ~a.ident THEN SendIdentityRequest(a)
          ELSE IF SecurityContextIsValid(a, macFailed) THEN EnterSecurityMode(a, macFailed, out)
          ELSE IF ausf = "error" THEN a ELSE SendAuthenticationRequest(b)
    BY DEF AuthenticationProcedure
<1> HIDE DEF b
<1> QED BY <1>2, <1>3, <1>4, <1>5

LEMMA SoundAuthFail ==
    ASSUME NEW a, Sound(a), Idle(a)
    PROVE  Sound(AuthFail(a)) /\ Stays(a, AuthFail(a)) /\ AuthFail(a).state = "Deregistered"
<1> DEFINE b == [a EXCEPT !.ctx = "nil", !.synch = 0]
<1>1. a \in UeShape /\ 0 \in 0..1
    BY DEF Sound
<1>2. b \in UeShape
    BY <1>1, Zenon DEF UeShape
<1>3. /\ b.confirmed = a.confirmed /\ b.sec = a.sec /\ b.t3550 = a.t3550 /\ b.t3560 = a.t3560
      /\ b.state = a.state /\ b.panic = a.panic /\ b.unasked = a.unasked /\ b.alive = a.alive
      /\ b.asked = a.asked
    BY <1>1, Zenon DEF UeShape
<1>4. AuthFail(a) = EnterDeregistered(b)
    BY DEF AuthFail
<1> HIDE DEF b
<1>5. Sound(b) /\ Idle(b) /\ Stays(a, b)
    BY <1>2, <1>3, SoundOther
<1> QED BY <1>4, <1>5, SoundDeregistered DEF Stays

\* An identity that comes when it was not asked for is what Ordered excludes.
LEMMA SoundIdentityResponse ==
    ASSUME NEW a, Sound(a), NEW id, NEW macFailed \in BOOLEAN
    PROVE  LET b == HandleIdentityResponse(a, id, macFailed)
           IN  /\ Sound(b) /\ Idle(b) /\ b.state = a.state /\ b.confirmed = a.confirmed
               /\ b.alive = a.alive /\ (b.unasked \/ b.unasked = a.unasked)
<1> DEFINE i == a.ident \/ id = "suci"
           p == a.pei \/ (id = "pei" /\ ~macFailed)
           u == a.unasked \/ ~a.asked
           b == [a EXCEPT !.ident = i, !.pei = p, !.asked = FALSE, !.unasked = u]
<1>1. /\ a \in UeShape /\ i \in BOOLEAN /\ p \in BOOLEAN /\ u \in BOOLEAN
      /\ a.unasked \in BOOLEAN /\ a.asked \in BOOLEAN
    BY DEF Sound, UeShape
<1>2. HandleIdentityResponse(a, id, macFailed) = b
    BY Zenon DEF HandleIdentityResponse
<1> HIDE DEF i, p, u
<1>3. b \in UeShape
    BY <1>1, Zenon DEF UeShape
<1>4. /\ b.confirmed = a.confirmed /\ b.sec = a.sec /\ b.t3550 = a.t3550 /\ b.t3560 = a.t3560
      /\ b.state = a.state /\ b.panic = a.panic /\ b.alive = a.alive
      /\ b.asked = FALSE /\ b.unasked = u
    BY <1>1, Zenon DEF UeShape
<1> HIDE DEF b
<1>5. u \/ (u = a.unasked /\ a.asked /\ ~a.unasked)
    BY <1>1, Zenon DEF u
<1>6. b.unasked \/ (Ordered(b) /\ Idle(b) /\ b.unasked = a.unasked)
    BY <1>4, <1>5 DEF Sound, Ordered, Idle
<1>7. Idle(b)
    BY <1>6 DEF Idle
<1>8. Sound(b)
    BY <1>3, <1>4, <1>6 DEF Sound
<1> QED BY <1>2, <1>4, <1>6, <1>7, <1>8

\* What follows an answer to an authentication request, the timer stopped.
LEMMA SoundAuthenticated ==
    ASSUME NEW a, Sound(a), Idle(a), a.state = "Authentication", NEW result, NEW macFailed,
           NEW out \in Outcomes
    PROVE  /\ Sound(Authenticated(a, result, macFailed, out))
           /\ Stays(a, Authenticated(a, result, macFailed, out))
           /\ Authenticated(a, result, macFailed, out).state \in Busy \cup {"Deregistered"}
<1> DEFINE b == [a EXCEPT !.confirmed = TRUE, !.ident = TRUE]
<1>1. a \in UeShape
    BY DEF Sound
<1>2. b \in UeShape
    BY <1>1, Zenon DEF UeShape
<1>3. /\ b.confirmed = TRUE /\ b.sec = a.sec /\ b.t3550 = a.t3550 /\ b.t3560 = a.t3560
      /\ b.state = a.state /\ b.panic = a.panic /\ b.unasked = a.unasked /\ b.alive = a.alive
      /\ b.asked = a.asked
    BY <1>1, Zenon DEF UeShape
<1>4. Authenticated(a, result, macFailed, out) \in
          {EnterSecurityMode(b, macFailed, out), b, SendIdentityRequest(a), AuthFail(a),
           SendAuthenticationRequest(a), a}
    BY DEF Authenticated
<1> HIDE DEF b
<1>5. b.unasked \/ Ordered(b)
    BY <1>3 DEF Sound, Ordered
<1>6. Sound(b) /\ Idle(b) /\ Stays(a, b) /\ Stays(a, a)
    BY <1>2, <1>3, <1>5 DEF Sound, Stays, Idle
<1>7. /\ Sound(EnterSecurityMode(b, macFailed, out))
      /\ Stays(a, EnterSecurityMode(b, macFailed, out))
      /\ EnterSecurityMode(b, macFailed, out).state \in Busy
    BY <1>3, <1>6, SoundSecurityMode DEF Stays
<1> QED BY <1>3, <1>4, <1>6, <1>7, SoundIdentityRequest, SoundAuthFail,
           SoundAuthenticationRequest DEF Busy

LEMMA SoundAuthenticationFailed ==
    ASSUME NEW a, Sound(a), Idle(a), a.state = "Authentication", NEW cause, NEW ausf \in Ausf
    PROVE  /\ Sound(AuthenticationFailed(a, cause, ausf))
           /\ Stays(a, AuthenticationFailed(a, cause, ausf))
           /\ AuthenticationFailed(a, cause, ausf).state \in Busy \cup {"Deregistered"}
<1> DEFINE n == IF a.ctx = "aka" THEN 0 ELSE a.synch
           b == [a EXCEPT !.synch = n]
           c == [a EXCEPT !.synch = 1]
           d == [a EXCEPT !.synch = 1, !.ctx = ausf]
<1>1. a \in UeShape /\ n \in 0..1 /\ 1 \in 0..1
    BY DEF Sound, UeShape
<1>2. \/ AuthenticationFailed(a, cause, ausf) \in {AuthFail(a), SendAuthenticationRequest(b), c, a}
      \/ ausf # "error" /\ AuthenticationFailed(a, cause, ausf) = SendAuthenticationRequest(d)
    BY DEF AuthenticationFailed
<1> HIDE DEF n
<1>3. b \in UeShape /\ c \in UeShape
    BY <1>1, Zenon DEF UeShape
<1>4. ausf # "error" => ausf \in {"nil", "aka", "eap"}
    BY DEF Ausf
<1>5. ausf # "error" => d \in UeShape
    BY <1>1, <1>4, Zenon DEF UeShape
<1>6. /\ b.confirmed = a.confirmed /\ b.sec = a.sec /\ b.t3550 = a.t3550 /\ b.t3560 = a.t3560
      /\ b.state = a.state /\ b.panic = a.panic /\ b.unasked = a.unasked /\ b.alive = a.alive
      /\ b.asked = a.asked
    BY <1>1, Zenon DEF UeShape
<1>7. /\ c.confirmed = a.confirmed /\ c.sec = a.sec /\ c.t3550 = a.t3550 /\ c.t3560 = a.t3560
      /\ c.state = a.state /\ c.panic = a.panic /\ c.unasked = a.unasked /\ c.alive = a.alive
      /\ c.asked = a.asked
    BY <1>1, Zenon DEF UeShape
<1>8. /\ d.confirmed = a.confirmed /\ d.sec = a.sec /\ d.t3550 = a.t3550 /\ d.t3560 = a.t3560
      /\ d.state = a.state /\ d.panic = a.panic /\ d.unasked = a.unasked /\ d.alive = a.alive
      /\ d.asked = a.asked
    BY <1>1, Zenon DEF UeShape
<1> HIDE DEF b, c, d
<1>9. /\ Sound(b) /\ Stays(a, b) /\ Idle(b)
      /\ Sound(c) /\ Stays(a, c) /\ Idle(c)
      /\ ausf # "error" => Sound(d) /\ Stays(a, d) /\ Idle(d)
    BY <1>3, <1>5, <1>6, <1>7, <1>8, SoundOther
<1>10. /\ Sound(SendAuthenticationRequest(b)) /\ Stays(a, SendAuthenticationRequest(b))
       /\ SendAuthenticationRequest(b).state \in Busy
    BY <1>6, <1>9, SoundAuthenticationRequest DEF Stays, Busy
<1>11. ausf # "error" =>
          /\ Sound(SendAuthenticationRequest(d)) /\ Stays(a, SendAuthenticationRequest(d))
          /\ SendAuthenticationRequest(d).state \in Busy
    BY <1>8, <1>9, SoundAuthenticationRequest DEF Stays, Busy
<1>12. Stays(a, a) /\ a.state \in Busy /\ c.state \in Busy
    BY <1>7 DEF Stays, Busy
<1>13. Sound(AuthFail(a)) /\ Stays(a, AuthFail(a)) /\ AuthFail(a).state = "Deregistered"
    BY SoundAuthFail
<1> QED BY <1>2, <1>9, <1>10, <1>11, <1>12, <1>13

----------------------------------------------------------------------------
(* The steps: what is left is Safe, and GmmLife allows the change.         *)

Moves(a, b) ==
    \/ ~b.alive
    \/ /\ b.alive = a.alive
       /\ b.unasked /\ (a.unasked \/ a.state \in Busy)
    \/ /\ b.alive = a.alive /\ b.unasked = a.unasked
       /\ \/ b.state = a.state
          \/ a.state \in Busy /\ b.state \in Busy \cup {"Deregistered", "Registered"}
          \/ a.state \in {"Deregistered", "Registered"} /\ b.state \in Busy
          \/ a.state = "Registered" /\ b.state \in {"Deregistered", "DeregistrationInitiated"}

LEMMA SoundSafe ==
    ASSUME NEW a, Sound(a)
    PROVE  Safe(a)
<1>1. a.t3550.retry \in Nat /\ a.t3560.retry \in Nat
    BY SoundTimers DEF TimerShape
<1> QED BY <1>1, GmmAssumption DEF Sound, Safe, Wreck, Sane

\* What a message finds.
LEMMA SoundConnected ==
    ASSUME Sound(ue), NEW a \in Connected
    PROVE  /\ Sound(a) /\ Stays(ue, a) /\ a.state = ue.state
           /\ a.state \in Past => a.confirmed
<1> DEFINE b == [ue EXCEPT !.conn = TRUE]
<1>1. ue \in UeShape
    BY DEF Sound
<1>2. b \in UeShape
    BY <1>1, Zenon DEF UeShape
<1>3. /\ b.confirmed = ue.confirmed /\ b.sec = ue.sec /\ b.t3550 = ue.t3550 /\ b.t3560 = ue.t3560
      /\ b.state = ue.state /\ b.panic = ue.panic /\ b.unasked = ue.unasked /\ b.alive = ue.alive
      /\ b.asked = ue.asked
    BY <1>1, Zenon DEF UeShape
<1>4. a \in {ue, b}
    BY DEF Connected
<1> HIDE DEF b
<1>5. Sound(b) /\ Stays(ue, b) /\ Stays(ue, ue)
    BY <1>2, <1>3, SoundOther DEF Stays
<1>6. Sound(a) /\ Stays(ue, a) /\ a.state = ue.state
    BY <1>3, <1>4, <1>5
<1> QED BY <1>6 DEF Sound

LEMMA RegistrationRequestStep ==
    ASSUME Sound(ue), NEW type \in {"initial", "update"}, NEW id, NEW ok \in BOOLEAN,
           NEW macFailed, NEW ausf \in Ausf, NEW out \in Outcomes,
           HandleRegistrationRequest(type, id, ok, macFailed, ausf, out)
    PROVE  Safe(ue') /\ Moves(ue, ue')
<1>1. PICK a \in Connected :
          /\ a.state \in {"Deregistered", "Registered"}
          /\ LET b == [a EXCEPT !.req = type, !.guti = (id = "guti"), !.ident = @ \/ id = "suci"]
             IN  Leave(IF ok THEN AuthenticationProcedure(
                                    [b EXCEPT !.state = "Authentication"], macFailed, ausf, out)
                       ELSE b)
    BY DEF HandleRegistrationRequest
<1> DEFINE g == id = "guti"
           i == a.ident \/ id = "suci"
           b == [a EXCEPT !.req = type, !.guti = g, !.ident = i]
           c == [b EXCEPT !.state = "Authentication"]
<1>2. Sound(a) /\ Stays(ue, a) /\ a.state = ue.state /\ a \in UeShape /\ g \in BOOLEAN /\ i \in BOOLEAN
    BY SoundConnected DEF Sound
<1>3. ue' = IF ok THEN AuthenticationProcedure(c, macFailed, ausf, out) ELSE b
    BY <1>1, Zenon DEF Leave
<1> HIDE DEF g, i
<1>4. b \in UeShape
    BY <1>2, Zenon DEF UeShape
<1>5. /\ b.confirmed = a.confirmed /\ b.sec = a.sec /\ b.t3550 = a.t3550 /\ b.t3560 = a.t3560
      /\ b.state = a.state /\ b.panic = a.panic /\ b.unasked = a.unasked /\ b.alive = a.alive
      /\ b.asked = a.asked
    BY <1>2, Zenon DEF UeShape
<1> HIDE DEF b
<1>6. Sound(b) /\ Stays(ue, b)
    BY <1>2, <1>4, <1>5, SoundOther DEF Stays
<1>7. Idle(b)
    BY <1>1, <1>5, <1>6 DEF Sound, Ordered, Idle
<1>8. Sound(c) /\ Idle(c) /\ Stays(ue, c) /\ c.state = "Authentication"
  <2>1. "Authentication" \in GmmStates /\ "Authentication" \notin Past
      BY DEF GmmStates, Past
  <2> QED BY <1>6, <1>7, <2>1, SoundState DEF Stays
<1> HIDE DEF c
<1>9. /\ Sound(AuthenticationProcedure(c, macFailed, ausf, out))
      /\ Stays(ue, AuthenticationProcedure(c, macFailed, ausf, out))
      /\ AuthenticationProcedure(c, macFailed, ausf, out).state \in Busy
    BY <1>8, SoundAuthentication DEF Stays
<1>10. Sound(ue') /\ Stays(ue, ue') /\ (ue'.state = ue.state \/ ue'.state \in Busy)
    BY <1>2, <1>3, <1>5, <1>6, <1>9
<1> QED BY <1>1, <1>2, <1>10, SoundSafe DEF Moves, Stays

LEMMA IdentityStep ==
    ASSUME Sound(ue), NEW id, NEW macFailed \in BOOLEAN, NEW ausf \in Ausf, NEW out \in Outcomes,
           \/ IdentityForAuthentication(id, macFailed, ausf, out)
           \/ IdentityForContextSetup(id, macFailed, out)
    PROVE  Safe(ue') /\ Moves(ue, ue')
<1>1. PICK a \in Connected :
          \/ /\ a.state = "Authentication"
             /\ ue' = AuthenticationProcedure(HandleIdentityResponse(a, id, macFailed),
                                              macFailed, ausf, out)
          \/ /\ a.state = "ContextSetup"
             /\ \/ ue' = EnterDeregistered(HandleIdentityResponse(a, id, macFailed))
                \/ ue' = Register(HandleIdentityResponse(a, id, macFailed), out)
    BY DEF IdentityForAuthentication, IdentityForContextSetup, Leave
<1> DEFINE b == HandleIdentityResponse(a, id, macFailed)
<1>2. Sound(a) /\ Stays(ue, a) /\ a.state = ue.state /\ (a.state \in Past => a.confirmed)
    BY SoundConnected
<1>3. /\ Sound(b) /\ Idle(b) /\ b.state = a.state /\ b.confirmed = a.confirmed
      /\ b.alive = a.alive /\ (b.unasked \/ b.unasked = a.unasked)
    BY <1>2, SoundIdentityResponse
<1> HIDE DEF b
<1>4. Sound(ue') /\ Stays(b, ue') /\ ue'.state \in Busy \cup {"Deregistered"}
  <2>1. CASE a.state = "Authentication" /\ ue' = AuthenticationProcedure(b, macFailed, ausf, out)
      BY <1>3, <2>1, SoundAuthentication
  <2>2. CASE a.state = "ContextSetup" /\ ue' = EnterDeregistered(b)
      BY <1>3, <2>2, SoundDeregistered
  <2>3. CASE a.state = "ContextSetup" /\ ue' = Register(b, out)
    <3>1. b.confirmed /\ b.state = "ContextSetup"
        BY <1>2, <1>3, <2>3 DEF Past
    <3> QED BY <1>3, <2>3, <3>1, SoundRegister DEF Busy
  <2> QED BY <1>1, <2>1, <2>2, <2>3 DEF b
<1>5. ue.state \in Busy
    BY <1>1, <1>2 DEF Busy
<1> QED BY <1>2, <1>3, <1>4, <1>5, SoundSafe DEF Moves, Stays

LEMMA AuthenticationStep ==
    ASSUME Sound(ue), NEW result, NEW cause, NEW macFailed, NEW ausf \in Ausf, NEW out \in Outcomes,
           \/ HandleAuthenticationResponse(result, macFailed, out)
           \/ HandleAuthenticationFailure(cause, ausf)
    PROVE  Safe(ue') /\ Moves(ue, ue')
<1>1. PICK a \in Connected :
          /\ a.state = "Authentication"
          /\ \/ ue' = StopT3560(a)
             \/ ue' = Authenticated(StopT3560(a), result, macFailed, out)
             \/ ue' = Panic(StopT3560(a), "message")
             \/ ue' = AuthenticationFailed(StopT3560(a), cause, ausf)
    BY DEF HandleAuthenticationResponse, HandleAuthenticationFailure, Leave
<1> DEFINE b == StopT3560(a)
<1>2. Sound(a) /\ Stays(ue, a) /\ a.state = ue.state
    BY SoundConnected
<1>3. Sound(b) /\ Idle(b) /\ Stays(a, b) /\ b.state = "Authentication"
    BY <1>1, <1>2, SoundStop
<1> HIDE DEF b
<1>4. Sound(ue') /\ Stays(b, ue') /\ ue'.state \in Busy \cup {"Deregistered"}
  <2>1. CASE ue' = b
      BY <1>3, <2>1 DEF Stays, Busy
  <2>2. CASE ue' = Authenticated(b, result, macFailed, out)
      BY <1>3, <2>2, SoundAuthenticated
  <2>3. CASE ue' = Panic(b, "message")
      BY <1>3, <2>3, SoundPanic DEF Busy
  <2>4. CASE ue' = AuthenticationFailed(b, cause, ausf)
      BY <1>3, <2>4, SoundAuthenticationFailed
  <2> QED BY <1>1, <2>1, <2>2, <2>3, <2>4 DEF b
<1>5. ue.state \in Busy
    BY <1>1, <1>2 DEF Busy
<1> QED BY <1>2, <1>3, <1>4, <1>5, SoundSafe DEF Moves, Stays

LEMMA SecurityModeStep ==
    ASSUME Sound(ue), NEW container \in {"registration", "service", "bad"},
           NEW imeisv \in BOOLEAN, NEW out \in Outcomes,
           HandleSecurityModeComplete(container, imeisv, out) \/ HandleSecurityModeReject
    PROVE  Safe(ue') /\ Moves(ue, ue')
<1>1. PICK a \in Connected :
          LET b == [StopT3560(a) EXCEPT !.pei = @ \/ imeisv]
          IN  /\ a.state = "SecurityMode"
              /\ \/ ue' = b
                 \/ ue' = Panic([b EXCEPT !.state = "ContextSetup"], "message")
                 \/ ue' = EnterContextSetup(b, out)
                 \/ ue' = EnterDeregistered(StopT3560(a))
    BY DEF HandleSecurityModeComplete, HandleSecurityModeReject, Leave
<1> DEFINE s == StopT3560(a)
           p == s.pei \/ imeisv
           b == [s EXCEPT !.pei = p]
           c == [b EXCEPT !.state = "ContextSetup"]
<1>2. Sound(a) /\ Stays(ue, a) /\ a.state = ue.state /\ a.confirmed
    BY <1>1, SoundConnected DEF Past
<1>3. /\ Sound(s) /\ s \in UeShape /\ Idle(s) /\ Stays(a, s) /\ s.state = "SecurityMode" /\ s.confirmed
      /\ p \in BOOLEAN
    BY <1>1, <1>2, SoundStop DEF Sound
<1>4. \/ ue' = b
      \/ ue' = Panic(c, "message")
      \/ ue' = EnterContextSetup(b, out)
      \/ ue' = EnterDeregistered(s)
    BY <1>1, Zenon
<1> HIDE DEF s, p
<1>5. b \in UeShape
    BY <1>3, Zenon DEF UeShape
<1>6. /\ b.confirmed = s.confirmed /\ b.sec = s.sec /\ b.t3550 = s.t3550 /\ b.t3560 = s.t3560
      /\ b.state = s.state /\ b.panic = s.panic /\ b.unasked = s.unasked /\ b.alive = s.alive
      /\ b.asked = s.asked
    BY <1>3, Zenon DEF UeShape
<1> HIDE DEF b
<1>7. Sound(b) /\ Idle(b) /\ Stays(s, b)
    BY <1>3, <1>5, <1>6, SoundOther
<1>8. Sound(c) /\ Stays(b, c) /\ c.state = "ContextSetup"
  <2>1. "ContextSetup" \in GmmStates
      BY DEF GmmStates
  <2> QED BY <1>3, <1>6, <1>7, <2>1, SoundState
<1> HIDE DEF c
<1>9. Sound(ue') /\ Stays(s, ue') /\ ue'.state \in Busy \cup {"Deregistered"}
  <2>1. CASE ue' = b
      BY <1>3, <1>6, <1>7, <2>1 DEF Busy
  <2>2. CASE ue' = Panic(c, "message")
      BY <1>7, <1>8, <2>2, SoundPanic DEF Stays, Busy
  <2>3. CASE ue' = EnterContextSetup(b, out)
      BY <1>3, <1>6, <1>7, <2>3, SoundContextSetup DEF Stays, Busy
  <2>4. CASE ue' = EnterDeregistered(s)
      BY <1>3, <2>4, SoundDeregistered
  <2> QED BY <1>4, <2>1, <2>2, <2>3, <2>4
<1>10. ue.state \in Busy
    BY <1>1, <1>2 DEF Busy
<1> QED BY <1>2, <1>3, <1>9, <1>10, SoundSafe DEF Moves, Stays

LEMMA RegistrationCompleteStep ==
    ASSUME Sound(ue), HandleRegistrationComplete
    PROVE  Safe(ue') /\ Moves(ue, ue')
<1>1. PICK a \in Connected :
          /\ a.state = "ContextSetup"
          /\ \/ ue' = Panic(StopT3550(a), "message")
             \/ ue' = EnterRegistered(StopT3550(a))
    BY DEF HandleRegistrationComplete, Leave
<1> DEFINE b == StopT3550(a)
<1>2. Sound(a) /\ Stays(ue, a) /\ a.state = ue.state /\ a.confirmed
    BY <1>1, SoundConnected DEF Past
<1>3. Sound(b) /\ Idle(b) /\ Stays(a, b) /\ b.state = "ContextSetup" /\ b.confirmed
    BY <1>1, <1>2, SoundStop
<1> HIDE DEF b
<1>4. Sound(ue') /\ Stays(b, ue') /\ ue'.state \in {"ContextSetup", "Registered"}
    BY <1>1, <1>3, SoundPanic, SoundRegistered DEF b
<1>5. ue.state \in Busy
    BY <1>1, <1>2 DEF Busy
<1> QED BY <1>2, <1>3, <1>4, <1>5, SoundSafe DEF Moves, Stays, Busy

LEMMA DeregistrationStep ==
    ASSUME Sound(ue), NEW otherAccess, HandleDeregistrationRequest(otherAccess)
    PROVE  Safe(ue') /\ Moves(ue, ue')
<1>1. PICK a \in Connected :
          LET b == [a EXCEPT !.state = "DeregistrationInitiated"]
          IN  /\ a.state = "Registered"
              /\ ue' = b \/ ue' = EnterDeregistered(b)
    BY DEF HandleDeregistrationRequest, Leave
<1> DEFINE b == [a EXCEPT !.state = "DeregistrationInitiated"]
<1>2. Sound(a) /\ Stays(ue, a) /\ a.state = ue.state /\ a.confirmed
    BY <1>1, SoundConnected DEF Past
<1>3. Idle(a) /\ "DeregistrationInitiated" \in GmmStates
    BY <1>1, <1>2 DEF Sound, Ordered, Idle, GmmStates
<1>4. Sound(b) /\ Idle(b) /\ Stays(a, b) /\ b.state = "DeregistrationInitiated"
    BY <1>2, <1>3, SoundState
<1>5. ue' = b \/ ue' = EnterDeregistered(b)
    BY <1>1
<1> HIDE DEF b
<1>6. Sound(ue') /\ Stays(b, ue') /\ ue'.state \in {"Deregistered", "DeregistrationInitiated"}
    BY <1>4, <1>5, SoundDeregistered DEF Stays
<1> QED BY <1>1, <1>2, <1>4, <1>6, SoundSafe DEF Moves, Stays

LEMMA SoundRemove ==
    ASSUME NEW a, Sound(a)
    PROVE  Sound(Remove(a)) /\ ~Remove(a).alive
<1> DEFINE b == [a EXCEPT !.alive = FALSE, !.conn = FALSE]
<1>1. a \in UeShape
    BY DEF Sound
<1>2. b \in UeShape
    BY <1>1, Zenon DEF UeShape
<1>3. /\ b.confirmed = a.confirmed /\ b.sec = a.sec /\ b.t3550 = a.t3550 /\ b.t3560 = a.t3560
      /\ b.state = a.state /\ b.panic = a.panic /\ b.unasked = a.unasked /\ b.alive = FALSE
      /\ b.asked = a.asked
    BY <1>1, Zenon DEF UeShape
<1>4. Remove(a) = b
    BY DEF Remove
<1> HIDE DEF b
<1>5. b.unasked \/ Ordered(b)
    BY <1>3 DEF Sound, Ordered
<1> QED BY <1>2, <1>3, <1>4, <1>5 DEF Sound

LEMMA RemovedStep ==
    ASSUME Sound(ue), RanUeRemoved \/ AmfUeRemoved
    PROVE  Safe(ue') /\ Moves(ue, ue')
<1>1. CASE RanUeRemoved
  <2> DEFINE b == [ue EXCEPT !.conn = FALSE]
  <2>1. ue \in UeShape
      BY DEF Sound
  <2>2. b \in UeShape
      BY <2>1, Zenon DEF UeShape
  <2>3. /\ b.confirmed = ue.confirmed /\ b.sec = ue.sec /\ b.t3550 = ue.t3550 /\ b.t3560 = ue.t3560
        /\ b.state = ue.state /\ b.panic = ue.panic /\ b.unasked = ue.unasked /\ b.alive = ue.alive
        /\ b.asked = ue.asked
      BY <2>1, Zenon DEF UeShape
  <2>4. ue' = b
      BY <1>1 DEF RanUeRemoved, Leave
  <2> HIDE DEF b
  <2>5. Sound(b)
      BY <2>2, <2>3, SoundOther
  <2> QED BY <2>3, <2>4, <2>5, SoundSafe DEF Moves
<1>2. CASE AmfUeRemoved
    BY <1>2, SoundRemove, SoundSafe DEF AmfUeRemoved, Leave, Moves
<1> QED BY <1>1, <1>2

\* A timer that changes and does not get a pointer.
LEMMA SoundT3550 ==
    ASSUME NEW a, Sound(a), a.confirmed, NEW x \in TimerShape, Sane(x, MaxT3550RetryTimes),
           x.ptr => a.t3550.ptr, a.t3550.stray = 0 => x.stray = 0
    PROVE  /\ Sound([a EXCEPT !.t3550 = x]) /\ Stays(a, [a EXCEPT !.t3550 = x])
           /\ [a EXCEPT !.t3550 = x].state = a.state
<1> DEFINE b == [a EXCEPT !.t3550 = x]
<1>1. a \in UeShape
    BY DEF Sound
<1>2. b \in UeShape
    BY <1>1, Zenon DEF UeShape
<1>3. /\ b.confirmed = a.confirmed /\ b.sec = a.sec /\ b.t3550 = x /\ b.t3560 = a.t3560
      /\ b.state = a.state /\ b.panic = a.panic /\ b.unasked = a.unasked /\ b.alive = a.alive
      /\ b.asked = a.asked
    BY <1>1, Zenon DEF UeShape
<1> HIDE DEF b
<1>4. b.unasked \/ Ordered(b)
    BY <1>3 DEF Sound, Ordered
<1>5. Sound(b) /\ Stays(a, b)
    BY <1>2, <1>3, <1>4 DEF Sound, Stays
<1> QED BY <1>3, <1>5 DEF b

LEMMA SoundT3560 ==
    ASSUME NEW a, Sound(a), NEW x \in TimerShape, Sane(x, MaxT3560RetryTimes),
           x.ptr => a.t3560.ptr, a.t3560.stray = 0 => x.stray = 0
    PROVE  /\ Sound([a EXCEPT !.t3560 = x]) /\ Stays(a, [a EXCEPT !.t3560 = x])
           /\ [a EXCEPT !.t3560 = x].state = a.state
<1> DEFINE b == [a EXCEPT !.t3560 = x]
<1>1. a \in UeShape
    BY DEF Sound
<1>2. b \in UeShape
    BY <1>1, Zenon DEF UeShape
<1>3. /\ b.confirmed = a.confirmed /\ b.sec = a.sec /\ b.t3550 = a.t3550 /\ b.t3560 = x
      /\ b.state = a.state /\ b.panic = a.panic /\ b.unasked = a.unasked /\ b.alive = a.alive
      /\ b.asked = a.asked
    BY <1>1, Zenon DEF UeShape
<1> HIDE DEF b
<1>4. b.unasked \/ Ordered(b)
    BY <1>3 DEF Sound, Ordered
<1>5. Sound(b) /\ Stays(a, b)
    BY <1>2, <1>3, <1>4 DEF Sound, Stays
<1> QED BY <1>3, <1>5 DEF b

LEMMA ExpireStep ==
    ASSUME Sound(ue), ExpireT3550 \/ ExpireT3560
    PROVE  Safe(ue') /\ Moves(ue, ue')
<1>1. /\ ue.t3550 \in TimerShape /\ ue.t3560 \in TimerShape
      /\ MaxT3550RetryTimes \in Nat /\ MaxT3560RetryTimes \in Nat
      /\ Sane(ue.t3550, MaxT3550RetryTimes) /\ Sane(ue.t3560, MaxT3560RetryTimes)
    BY SoundTimers
<1>2. Sound(ue') /\ Stays(ue, ue') /\ ue'.state = ue.state
  <2>1. CASE ExpireT3550
    <3>1. ue.confirmed
        BY <2>1 DEF Sound, Used, ExpireT3550
    <3>2. PICK x \in TimerShape :
              /\ ue' = [ue EXCEPT !.t3550 = x] /\ Sane(x, MaxT3550RetryTimes)
              /\ x.ptr = ue.t3550.ptr /\ (ue.t3550.stray = 0 => x.stray = 0)
        BY <1>1, <2>1, ExpiredSane DEF ExpireT3550, Leave
    <3> QED BY <3>1, <3>2, SoundT3550
  <2>2. CASE ExpireT3560
    <3>1. PICK x \in TimerShape :
              /\ ue' = [ue EXCEPT !.t3560 = x] /\ Sane(x, MaxT3560RetryTimes)
              /\ x.ptr = ue.t3560.ptr /\ (ue.t3560.stray = 0 => x.stray = 0)
        BY <1>1, <2>2, ExpiredSane DEF ExpireT3560, Leave
    <3> QED BY <3>1, SoundT3560
  <2> QED BY <2>1, <2>2
<1> QED BY <1>2, SoundSafe DEF Moves, Stays

\* A callback of T3550 counts and resets the timer that the AmfUe points to; it
\* finds none only if that is known to be possible, and gives up only where the
\* registration was accepted.
LEMMA CallbackT3550Step ==
    ASSUME Sound(ue), CallbackT3550
    PROVE  Safe(ue') /\ Moves(ue, ue')
<1> DEFINE x == Counted(ue.t3550)
           a == [ue EXCEPT !.t3550 = x]
<1>1. /\ ue \in UeShape /\ ue.t3550 \in TimerShape /\ ue.t3550.running > 0 /\ ue.panic = "no"
      /\ Sane(ue.t3550, MaxT3550RetryTimes) /\ MaxT3550RetryTimes \in Nat \ {0} /\ ue.confirmed
    BY GmmAssumption, SoundTimers DEF CallbackT3550, Leave, Sound, Used
<1>2. /\ x \in TimerShape /\ x.retry = ue.t3550.retry + 1 /\ x.stray = ue.t3550.stray
      /\ x.ptr = ue.t3550.ptr /\ x.lost = ue.t3550.lost
    BY <1>1, CountedShape
<1>3. ue.t3550.retry \in Nat /\ ue.t3550.running \in Nat /\ ue.t3550.stray \in Nat
    BY <1>1, TimersAssumption DEF TimerShape
<1>4. /\ x.retry <= MaxT3550RetryTimes + 1
      /\ ~x.ptr => x.retry = 1 /\ x.retry <= MaxT3550RetryTimes /\ x.lost
    BY <1>1, <1>2, <1>3 DEF Sane
<1>5. a.t3550 = x
    BY <1>1 DEF UeShape
<1>6. ue' = IF x.retry > MaxT3550RetryTimes THEN AbortT3550(a)
            ELSE IF ~x.ptr THEN Panic(a, "reset3550")
            ELSE [a EXCEPT !.t3550 = Reset(@)]
    BY <1>5, Zenon DEF CallbackT3550, Leave
<1> HIDE DEF x
<1>7. CASE x.retry > MaxT3550RetryTimes
  <2> DEFINE s == [a EXCEPT !.state = "Registered"]
             b == [s EXCEPT !.req = "none", !.guti = FALSE, !.synch = 0]
             y == Stopped(x)
             d == [b EXCEPT !.t3550 = y]
             e == [b EXCEPT !.panic = "abort"]
  <2>1. 0 \in 0..1
      OBVIOUS
  <2>2. a \in UeShape /\ s \in UeShape
      BY <1>1, <1>2, Zenon DEF UeShape, GmmStates
  <2>3. b \in UeShape
      BY <2>1, <2>2, Zenon DEF UeShape
  <2>4. /\ b.confirmed = ue.confirmed /\ b.sec = ue.sec /\ b.t3550 = x /\ b.t3560 = ue.t3560
        /\ b.state = "Registered" /\ b.panic = ue.panic /\ b.unasked = ue.unasked
        /\ b.alive = ue.alive /\ b.asked = ue.asked /\ s.conn = ue.conn
      BY <1>1, <1>2, Zenon DEF UeShape
  <2>5. EnterRegistered(a) = IF s.conn THEN b ELSE e
      BY Zenon DEF EnterRegistered, ClearRegistrationRequestData, Panic
  <2>6. e \in UeShape /\ e.panic = "abort"
      BY <2>3, Zenon DEF UeShape
  <2>7. ue' = IF ue.conn THEN d ELSE e
    <3>1. ue.conn => EnterRegistered(a) = b /\ b.panic = "no"
        BY <1>1, <2>4, <2>5
    <3>2. ~ue.conn => EnterRegistered(a) = e /\ e.panic # "no"
        BY <2>4, <2>5, <2>6
    <3>3. StopT3550(b) = d
        BY <2>4, Zenon DEF StopT3550
    <3> HIDE DEF a, b, d, e, s
    <3> QED BY <1>6, <1>7, <3>1, <3>2, <3>3 DEF AbortT3550
  <2>8. /\ y \in TimerShape /\ Sane(y, MaxT3550RetryTimes) /\ ~y.ptr /\ y.stray = x.stray
      BY <1>1, <1>2, StoppedSane
  <2> HIDE DEF y
  <2>9. d \in UeShape
      BY <2>3, <2>8, Zenon DEF UeShape
  <2>10. /\ d.confirmed = b.confirmed /\ d.sec = b.sec /\ d.t3550 = y /\ d.t3560 = b.t3560
         /\ d.state = b.state /\ d.panic = b.panic /\ d.unasked = b.unasked
         /\ d.alive = b.alive /\ d.asked = b.asked
      BY <2>3, <2>8, Zenon DEF UeShape
  <2>11. /\ e.confirmed = b.confirmed /\ e.t3550 = b.t3550 /\ e.t3560 = b.t3560
         /\ e.state = b.state /\ e.unasked = b.unasked /\ e.alive = b.alive
      BY <2>3, Zenon DEF UeShape
  <2> HIDE DEF a, b, d, e, s
  <2>12. ue.unasked \/ ue.state = "ContextSetup"
      BY <1>1, <1>2, <1>3, <1>4, <1>7 DEF Sound, Ordered
  <2>13. Sound(d)
    <3>1. d.unasked \/ Ordered(d)
        BY <1>2, <2>4, <2>8, <2>10, <2>12 DEF Sound, Ordered
    <3> QED BY <1>1, <2>4, <2>8, <2>9, <2>10, <3>1 DEF Sound
  <2>14. ue.t3560.retry <= MaxT3560RetryTimes
      BY DEF Sound, Sane
  <2>15. Safe(e)
      BY <1>1, <1>4, <2>4, <2>6, <2>11, <2>14 DEF Safe, Wreck
  <2>16. Safe(ue')
      BY <2>7, <2>13, <2>15, SoundSafe
  <2>17. ue'.alive = ue.alive /\ ue'.unasked = ue.unasked /\ ue'.state = "Registered"
      BY <2>4, <2>7, <2>10, <2>11
  <2> QED BY <2>12, <2>16, <2>17 DEF Moves, Busy
<1>8. CASE x.retry <= MaxT3550RetryTimes /\ ~x.ptr
  <2> DEFINE e == [a EXCEPT !.panic = "reset3550"]
  <2>1. a \in UeShape
      BY <1>1, <1>2, Zenon DEF UeShape
  <2>2. e \in UeShape
      BY <2>1, Zenon DEF UeShape
  <2>3. /\ e.confirmed = ue.confirmed /\ e.t3550 = x /\ e.t3560 = ue.t3560
        /\ e.state = ue.state /\ e.unasked = ue.unasked /\ e.alive = ue.alive
        /\ e.panic = "reset3550"
      BY <1>1, <1>2, Zenon DEF UeShape
  <2>4. ~(x.retry > MaxT3550RetryTimes)
      BY <1>1, <1>2, <1>3, <1>8
  <2>5. ue' = e
      BY <1>6, <1>8, <2>4, Zenon DEF Panic
  <2> HIDE DEF a, e
  <2>6. ue.t3560.retry <= MaxT3560RetryTimes
      BY DEF Sound, Sane
  <2>7. Safe(e)
      BY <1>1, <1>4, <1>8, <2>2, <2>3, <2>6 DEF Safe, Wreck
  <2> QED BY <2>3, <2>5, <2>7 DEF Moves
<1>9. CASE x.retry <= MaxT3550RetryTimes /\ x.ptr
  <2> DEFINE y == Reset(x)
             b == [ue EXCEPT !.t3550 = y]
  <2>1. y \in TimerShape /\ y.ptr /\ y.retry = x.retry /\ y.stray = x.stray
      BY <1>2, <1>9, ResetShape
  <2>2. ~(x.retry > MaxT3550RetryTimes)
      BY <1>1, <1>2, <1>3, <1>9
  <2>3. ue' = b
      BY <1>1, <1>5, <1>6, <1>9, <2>2 DEF UeShape
  <2> HIDE DEF y, a
  <2>4. Sane(y, MaxT3550RetryTimes)
      BY <1>9, <2>1 DEF Sane
  <2>5. Sound(b) /\ Stays(ue, b) /\ b.state = ue.state
      BY <1>1, <1>2, <2>1, <2>4, <1>9, SoundT3550
  <2> QED BY <2>3, <2>5, SoundSafe DEF Moves, Stays
<1>10. x.retry > MaxT3550RetryTimes \/ x.retry <= MaxT3550RetryTimes
    BY <1>1, <1>2, <1>3
<1> QED BY <1>7, <1>8, <1>9, <1>10

LEMMA CallbackT3560Step ==
    ASSUME Sound(ue), CallbackT3560
    PROVE  Safe(ue') /\ Moves(ue, ue')
<1> DEFINE x == Counted(ue.t3560)
           a == [ue EXCEPT !.t3560 = x]
<1>1. /\ ue \in UeShape /\ ue.t3560 \in TimerShape /\ ue.t3560.running > 0 /\ ue.panic = "no"
      /\ Sane(ue.t3560, MaxT3560RetryTimes) /\ MaxT3560RetryTimes \in Nat
    BY SoundTimers DEF CallbackT3560, Leave
<1>2. /\ x \in TimerShape /\ x.retry = ue.t3560.retry + 1 /\ x.stray = ue.t3560.stray
      /\ x.ptr = ue.t3560.ptr /\ x.lost = ue.t3560.lost
    BY <1>1, CountedShape
<1>3. ue.t3560.retry \in Nat /\ ue.t3560.running \in Nat /\ ue.t3560.stray \in Nat
    BY <1>1, TimersAssumption DEF TimerShape
<1>4. ~x.ptr => x.lost
    BY <1>1, <1>2, <1>3 DEF Sane
<1>5. a.t3560 = x
    BY <1>1 DEF UeShape
<1>6. ue' = IF x.retry > MaxT3560RetryTimes THEN AbortT3560(a)
            ELSE IF ~x.ptr THEN Panic(a, "reset3560")
            ELSE [a EXCEPT !.t3560 = Reset(@)]
    BY <1>5, Zenon DEF CallbackT3560, Leave
<1> HIDE DEF x
<1>7. CASE x.retry > MaxT3560RetryTimes
  <2> DEFINE y == Stopped(x)
             b == [ue EXCEPT !.t3560 = y]
  <2>1. y \in TimerShape /\ Sane(y, MaxT3560RetryTimes) /\ ~y.ptr /\ y.stray = x.stray
      BY <1>1, <1>2, StoppedSane
  <2>2. StopT3560(a) = b
      BY <1>1, <1>5 DEF StopT3560, UeShape
  <2> HIDE DEF y
  <2>3. Sound(b)
      BY <1>2, <2>1, SoundT3560
  <2>4. ue' = Remove(b)
      BY <1>6, <1>7, <2>2 DEF AbortT3560
  <2> QED BY <2>3, <2>4, SoundRemove, SoundSafe DEF Moves
<1>8. CASE x.retry <= MaxT3560RetryTimes /\ ~x.ptr
  <2> DEFINE e == [a EXCEPT !.panic = "reset3560"]
  <2>1. a \in UeShape
      BY <1>1, <1>2, Zenon DEF UeShape
  <2>2. e \in UeShape
      BY <2>1, Zenon DEF UeShape
  <2>3. /\ e.confirmed = ue.confirmed /\ e.t3550 = ue.t3550 /\ e.t3560 = x
        /\ e.state = ue.state /\ e.unasked = ue.unasked /\ e.alive = ue.alive
        /\ e.panic = "reset3560"
      BY <1>1, <1>2, Zenon DEF UeShape
  <2>4. ~(x.retry > MaxT3560RetryTimes)
      BY <1>1, <1>2, <1>3, <1>8
  <2>5. ue' = e
      BY <1>6, <1>8, <2>4, Zenon DEF Panic
  <2> HIDE DEF a, e
  <2>6. ue.t3550.retry <= MaxT3550RetryTimes + 1
      BY SoundSafe DEF Safe, Wreck
  <2>7. Safe(e)
      BY <1>1, <1>4, <1>8, <2>2, <2>3, <2>6 DEF Safe, Wreck, Sound
  <2> QED BY <2>3, <2>5, <2>7 DEF Moves
<1>9. CASE x.retry <= MaxT3560RetryTimes /\ x.ptr
  <2> DEFINE y == Reset(x)
             b == [ue EXCEPT !.t3560 = y]
  <2>1. y \in TimerShape /\ y.ptr /\ y.retry = x.retry /\ y.stray = x.stray
      BY <1>2, <1>9, ResetShape
  <2>2. ~(x.retry > MaxT3560RetryTimes)
      BY <1>1, <1>2, <1>3, <1>9
  <2>3. ue' = b
      BY <1>1, <1>5, <1>6, <1>9, <2>2 DEF UeShape
  <2> HIDE DEF y, a
  <2>4. Sane(y, MaxT3560RetryTimes)
      BY <1>9, <2>1 DEF Sane
  <2>5. Sound(b) /\ Stays(ue, b) /\ b.state = ue.state
      BY <1>1, <1>2, <2>1, <2>4, <1>9, SoundT3560
  <2> QED BY <2>3, <2>5, SoundSafe DEF Moves, Stays
<1>10. x.retry > MaxT3560RetryTimes \/ x.retry <= MaxT3560RetryTimes
    BY <1>1, <1>2, <1>3
<1> QED BY <1>7, <1>8, <1>9, <1>10

----------------------------------------------------------------------------
(* The invariant, and what follows from it.                                *)

Inv ==
    /\ Safe(ue)
    /\ ue.t3550.stray <= MaxStray /\ ue.t3560.stray <= MaxStray
    /\ quiet \in BOOLEAN

LEMMA InvInit ==
    ASSUME Init
    PROVE  Inv
<1>1. NoTimer \in TimerShape /\ 0 \in 0..1
    BY TimersAssumption DEF NoTimer, TimerShape
<1>2. ue \in UeShape
    BY <1>1, Zenon DEF Init, UeShape, GmmStates
<1>3. Sane(NoTimer, MaxT3550RetryTimes) /\ Sane(NoTimer, MaxT3560RetryTimes) /\ ~Used(NoTimer)
    BY GmmAssumption DEF Sane, NoTimer, Used
<1>4. Ordered(ue)
    BY DEF Init, Ordered, NoTimer
<1>5. Sound(ue)
    BY <1>2, <1>3, <1>4 DEF Init, Sound, Past, NoTimer
<1>6. ue.t3550.stray <= MaxStray /\ ue.t3560.stray <= MaxStray
    BY TimersAssumption DEF Init, NoTimer
<1> QED BY <1>5, <1>6, SoundSafe DEF Inv, Init

LEMMA MessageStep ==
    ASSUME Sound(ue), Message
    PROVE  Safe(ue') /\ Moves(ue, ue')
<1>1. ASSUME NEW macFailed \in BOOLEAN, NEW out \in Outcomes, NEW ausf \in Ausf,
             NEW type \in {"initial", "update"}, NEW id, NEW ok \in BOOLEAN,
             HandleRegistrationRequest(type, id, ok, macFailed, ausf, out)
      PROVE  Safe(ue') /\ Moves(ue, ue')
    BY <1>1, RegistrationRequestStep
<1>2. ASSUME NEW macFailed \in BOOLEAN, NEW out \in Outcomes, NEW ausf \in Ausf, NEW id,
             IdentityForAuthentication(id, macFailed, ausf, out)
      PROVE  Safe(ue') /\ Moves(ue, ue')
    BY <1>2, IdentityStep
<1>3. ASSUME NEW macFailed \in BOOLEAN, NEW out \in Outcomes, NEW id,
             IdentityForContextSetup(id, macFailed, out)
      PROVE  Safe(ue') /\ Moves(ue, ue')
  <2>1. "aka" \in Ausf
      BY DEF Ausf
  <2> QED BY <1>3, <2>1, IdentityStep
<1>4. ASSUME NEW macFailed \in BOOLEAN, NEW out \in Outcomes, NEW result,
             HandleAuthenticationResponse(result, macFailed, out)
      PROVE  Safe(ue') /\ Moves(ue, ue')
  <2>1. "aka" \in Ausf
      BY DEF Ausf
  <2> QED BY <1>4, <2>1, AuthenticationStep
<1>5. ASSUME NEW cause, NEW ausf \in Ausf, HandleAuthenticationFailure(cause, ausf)
      PROVE  Safe(ue') /\ Moves(ue, ue')
  <2>1. "error" \in Outcomes
      BY DEF Outcomes
  <2> QED BY <1>5, <2>1, AuthenticationStep
<1>6. ASSUME NEW container \in {"registration", "service", "bad"}, NEW imeisv \in BOOLEAN,
             NEW out \in Outcomes, HandleSecurityModeComplete(container, imeisv, out)
      PROVE  Safe(ue') /\ Moves(ue, ue')
    BY <1>6, SecurityModeStep
<1>7. ASSUME HandleSecurityModeReject
      PROVE  Safe(ue') /\ Moves(ue, ue')
  <2>1. "error" \in Outcomes
      BY DEF Outcomes
  <2> QED BY <1>7, <2>1, SecurityModeStep
<1> QED BY <1>1, <1>2, <1>3, <1>4, <1>5, <1>6, <1>7, RegistrationCompleteStep,
           DeregistrationStep DEF Message

LEMMA Step ==
    ASSUME Inv, [Next]_vars
    PROVE  Inv' /\ Moves(ue, ue')
<1>1. CASE FallQuiet \/ UNCHANGED vars
    BY <1>1 DEF FallQuiet, vars, Inv, Moves
<1>2. CASE ~(FallQuiet \/ UNCHANGED vars)
  <2>1. /\ ue.panic = "no" /\ UNCHANGED quiet
        /\ ue'.t3550.stray <= MaxStray /\ ue'.t3560.stray <= MaxStray
    <3>1. \E a : Leave(a)
      <4>1. CASE Message
        <5>1. ASSUME NEW type, NEW id, NEW ok, NEW macFailed, NEW ausf, NEW out,
                     \/ HandleRegistrationRequest(type, id, ok, macFailed, ausf, out)
                     \/ IdentityForAuthentication(id, macFailed, ausf, out)
                     \/ IdentityForContextSetup(id, macFailed, out)
              PROVE  \E a : Leave(a)
            BY <5>1, Zenon DEF HandleRegistrationRequest, IdentityForAuthentication,
               IdentityForContextSetup
        <5>2. ASSUME NEW result, NEW cause, NEW macFailed, NEW ausf, NEW out,
                     \/ HandleAuthenticationResponse(result, macFailed, out)
                     \/ HandleAuthenticationFailure(cause, ausf)
              PROVE  \E a : Leave(a)
            BY <5>2, Zenon DEF HandleAuthenticationResponse, HandleAuthenticationFailure
        <5>3. ASSUME NEW container, NEW imeisv, NEW out, NEW otherAccess,
                     \/ HandleSecurityModeComplete(container, imeisv, out)
                     \/ HandleSecurityModeReject
                     \/ HandleRegistrationComplete
                     \/ HandleDeregistrationRequest(otherAccess)
              PROVE  \E a : Leave(a)
            BY <5>3, Zenon DEF HandleSecurityModeComplete, HandleSecurityModeReject,
               HandleRegistrationComplete, HandleDeregistrationRequest
        <5> QED BY <4>1, <5>1, <5>2, <5>3 DEF Message
      <4>2. CASE RanUeRemoved \/ AmfUeRemoved
          BY <4>2, Zenon DEF RanUeRemoved, AmfUeRemoved
      <4>3. CASE ExpireT3550 \/ ExpireT3560
          BY <4>3, Zenon DEF ExpireT3550, ExpireT3560
      <4>4. CASE CallbackT3550 \/ CallbackT3560
          BY <4>4, Zenon DEF CallbackT3550, CallbackT3560
      <4> QED BY <1>2, <4>1, <4>2, <4>3, <4>4 DEF Next
    <3> QED BY <3>1 DEF Leave
  <2>2. Sound(ue)
      BY <2>1 DEF Inv, Safe
  <2>3. Safe(ue') /\ Moves(ue, ue')
      BY <1>2, <2>2, MessageStep, RemovedStep, ExpireStep, CallbackT3550Step, CallbackT3560Step
      DEF Next
  <2> QED BY <2>1, <2>3 DEF Inv
<1> QED BY <1>1, <1>2

LEMMA InvAlways == Spec => []Inv
<1>1. Init => Inv
    BY InvInit
<1>2. Inv /\ [Next]_vars => Inv'
    BY Step
<1> QED BY <1>1, <1>2, PTL DEF Spec

\* Every variable keeps its type; the counter of T3550 passes its maximum only
\* in the panic of its abort, that of T3560 never does.
THEOREM TypeCorrect == Spec => []TypeOK
<1>1. Inv => TypeOK
  <2> SUFFICES ASSUME Inv PROVE TypeOK
      OBVIOUS
  <2>1. ue \in UeShape
      BY DEF Inv, Safe, Wreck
  <2>2. ASSUME NEW x \in TimerShape, x.stray <= MaxStray PROVE x \in TimerType
    <3>1. x.stray \in 0..MaxStray
        BY <2>2, TimersAssumption DEF TimerShape
    <3> QED BY <2>2, <3>1, Zenon DEF TimerShape, TimerType
  <2>3. ue.t3550 \in TimerShape /\ ue.t3560 \in TimerShape
      BY <2>1 DEF UeShape
  <2>4. ue.t3550 \in TimerType /\ ue.t3560 \in TimerType
      BY <2>2, <2>3 DEF Inv
  <2>5. ue \in UeType
      BY <2>1, <2>4, Zenon DEF UeShape, UeType
  <2> QED BY <2>5 DEF Inv, Safe, Wreck, TypeOK
<1> QED BY <1>1, InvAlways, PTL

\* The AMF only takes a UE past authentication that the AUSF has confirmed,
\* whatever the UE sends and whenever timers expire: the entry callbacks of
\* gmm/sm.go, the skipped procedure and the abort of T3550 all presuppose a
\* confirmation.
THEOREM NobodyUnconfirmed == Spec => []OnlyConfirmed
<1>1. Inv => OnlyConfirmed
    BY DEF Inv, Safe, Wreck, OnlyConfirmed, Past
<1> QED BY <1>1, InvAlways, PTL

\* A timer of an AmfUe whose identities came when asked for belongs to its state
\* and is the only one of its kind: what the handlers of gmm/handler.go stop
\* before they leave a state is all that runs.
THEOREM TimersInOrder == Spec => []TimersFollowState
<1>1. Inv => TimersFollowState
    BY DEF Inv, Safe, Sound, Ordered, TimersFollowState
<1> QED BY <1>1, InvAlways, PTL

\* T35xx.Reset on nil needs a stop that came after a callback had begun, or a
\* second start of the timer: no other order of messages and callbacks of
\* gmm/message/send.go leads there.
THEOREM ResetNeedsRace == Spec => []ResetFindsTimer
<1>1. Inv => ResetFindsTimer
    BY DEF Inv, Safe, Wreck, ResetFindsTimer
<1> QED BY <1>1, InvAlways, PTL

\* The AmfUe lives as GmmLife says: every handler, timer and removal is one
\* change of phase that the rest of the AMF expects, or none.
THEOREM RefinesLife == Spec => ImplementsLife
<1>1. Init => Life!Init
    BY DEF Init, Life!Init, Phase
<1>2. Inv /\ [Next]_vars => [Life!Next]_Phase
  <2> SUFFICES ASSUME Inv, [Next]_vars PROVE [Life!Next]_Phase
      OBVIOUS
  <2>1. Moves(ue, ue') /\ Inv'
      BY Step
  <2>2. ue.state \in GmmStates /\ ue'.state \in GmmStates
      BY <2>1 DEF Inv, Safe, Wreck, UeShape
  <2> QED BY <2>1, <2>2 DEF Moves, Busy, GmmStates, Phase, Life!Next, Life!Request, Life!Accepted,
             Life!Refused, Life!Deregister, Life!Remove, Life!Disorder
<1> QED BY <1>1, <1>2, InvAlways, PTL DEF Spec, ImplementsLife, Life!Spec
=============================================================================
