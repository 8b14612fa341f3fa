--------------------------- MODULE Pca9685_proofs ---------------------------
(***************************************************************************)
(* The driver of the PWM board for every number of channels, every width   *)
(* of the registers, every value the threads pass and any number of        *)
(* crashes: the board runs after a setup, a channel shows what was asked   *)
(* for last, no duty surges, and the driver implements PwmBoard.           *)
(***************************************************************************)
EXTENDS Pca9685, TLAPS

-----------------------------------------------------------------------------
(* Registers. *)

LEMMA Widths == BYTE \in Nat \ {0} /\ NIBBLE \in Nat \ {0} /\ FULL \in Nat \ {0}
  BY Pca9685Assumption DEF FULL

LEMMA Division ==
  ASSUME NEW a \in Nat, NEW d \in Nat \ {0}
  PROVE  /\ a % d \in 0 .. d - 1 /\ a \div d \in Nat
         /\ (a \div d) * d + (a % d) = a
<1> DEFINE q == a \div d
           r == a % d
<1>1. q \in Int /\ r \in 0 .. d - 1 /\ q * d + r = a
  OBVIOUS
<1> HIDE DEF q, r
<1>2. q >= 0
  <2> SUFFICES ASSUME q <= -1 PROVE FALSE
    BY <1>1
  <2>1. q * d <= -d
    BY <1>1
  <2> QED BY <2>1, <1>1
<1>3. q \in Nat
  BY <1>1, <1>2
<1> QED BY <1>1, <1>3 DEF q, r

\* Ticks that fit are what a register pair shows of them.
LEMMA WordHoldsTicks ==
  ASSUME NEW t \in 0 .. FULL - 1, NEW f \in BOOLEAN
  PROVE  Word(t, f) \in Register /\ Ticks(Word(t, f)) = t /\ Word(t, f).full = f
<1> DEFINE hi == t \div BYTE
           lo == t % BYTE
<1>1. /\ t \in Nat /\ BYTE \in Nat \ {0} /\ NIBBLE \in Nat \ {0}
      /\ t < NIBBLE * BYTE
  BY Widths DEF FULL
<1>2. lo \in 0 .. BYTE - 1 /\ hi \in Nat /\ hi * BYTE + lo = t
  BY <1>1, Division
<1> HIDE DEF hi, lo
<1>3. hi < NIBBLE
  <2> SUFFICES ASSUME hi >= NIBBLE PROVE FALSE
    BY <1>1, <1>2
  <2>1. hi * BYTE >= NIBBLE * BYTE
    BY <1>1, <1>2
  <2> QED BY <2>1, <1>1, <1>2
<1>4. Word(t, f) = [lo |-> lo, hi |-> hi, full |-> f]
  BY DEF Word, hi, lo
<1> QED BY <1>1, <1>2, <1>3, <1>4 DEF Register, Ticks

LEMMA ZeroWord ==
  ASSUME NEW f \in BOOLEAN
  PROVE  /\ Word(0, f) = [lo |-> 0, hi |-> 0, full |-> f]
         /\ Word(0, f) \in Register /\ Ticks(Word(0, f)) = 0
<1>1. 0 % BYTE = 0 /\ 0 \div BYTE = 0
  BY Widths
<1> QED BY <1>1, Widths DEF Word, Register, Ticks

LEMMA TicksFit ==
  ASSUME NEW r \in Register
  PROVE  Ticks(r) \in 0 .. FULL - 1
<1>1. /\ r.lo \in 0 .. BYTE - 1 /\ r.hi \in 0 .. NIBBLE - 1
      /\ BYTE \in Nat \ {0} /\ NIBBLE \in Nat \ {0}
  BY Widths DEF Register
<1>2. r.hi * BYTE \in Nat /\ r.hi * BYTE <= (NIBBLE - 1) * BYTE
  BY <1>1
<1>3. (NIBBLE - 1) * BYTE = NIBBLE * BYTE - BYTE
  BY <1>1
<1> QED BY <1>1, <1>2, <1>3 DEF Ticks, FULL

LEMMA ValueIsInt ==
  ASSUME NEW v \in Value \union {0, FULL}
  PROVE  v \in Int
<1>1. CASE v \in Value
  BY <1>1, Pca9685Assumption
<1>2. CASE v = 0 \/ v = FULL
  BY <1>2, Widths
<1> QED BY <1>1, <1>2

LEMMA ClampedIsDuty ==
  ASSUME NEW v \in Int
  PROVE  Clamped(v) \in 0 .. FULL
  BY Widths DEF Clamped

-----------------------------------------------------------------------------
(* The inductive invariant. *)

\* The setup, step by step: registers count up before any is written in pairs,
\* and the prescaler is written to a board that sleeps.
ModeInv ==
  /\ ppc \notin {"setup", "autoInc", "blind"} => "ai" \in mode
  /\ ppc \in {"sleep", "prescale", "wake", "restart"} => "ai" \in settings
  /\ ppc = "prescale" => "sleep" \in mode
  /\ ppc \in {"wake", "restart", "resetOn", "resetOff", "run"} => prescale = Rate60
  /\ ppc \in {"resetOn", "resetOff", "run"} => mode = {"ai"}

\* A channel is never on but from tick 0, and its thread knows which of the full
\* bits it has written and which high byte it has read.
ChannelInv(c) ==
  /\ on[c].lo = 0 /\ on[c].hi = 0
  /\ ppc # "run" => call[c] = Idle
  /\ ppc = "resetOff" => ~on[c].full
  /\ ppc = "run" /\ call[c].pc = "idle" => Duty(c) = Clamped(call[c].value)
  /\ call[c].pc \in {"readOn", "writeOnHigh"} => call[c].value >= FULL
  /\ call[c].pc \in {"readOff", "writeOffHigh"} =>
       call[c].value <= 0 \/ (call[c].value >= FULL /\ on[c].full)
  /\ call[c].pc \in {"writeOn", "writeOff"} => call[c].value \in 1 .. FULL - 1
  /\ call[c].pc = "writeOff" => ~on[c].full
  /\ call[c].pc = "writeOnHigh" => call[c].hi = 0
  /\ call[c].pc = "writeOffHigh" => call[c].hi = off[c].hi

Inv == TypeOK /\ ModeInv /\ \A c \in Channel : ChannelInv(c)

\* A duty, from registers that begin at tick 0.
ShownBy(ron, roff) ==
  IF roff.full THEN 0 ELSE IF ron.full THEN FULL ELSE Ticks(roff)

LEMMA DutyFromZero ==
  ASSUME NEW ron \in Register, NEW roff \in Register, ron.lo = 0, ron.hi = 0
  PROVE  /\ Ticks(ron) = 0 /\ (Ticks(roff) - Ticks(ron)) % FULL = Ticks(roff)
         /\ Ticks(roff) \in 0 .. FULL - 1
         /\ ShownBy(ron, roff) \in 0 .. FULL
<1>1. Ticks(ron) = 0
  BY Widths DEF Ticks
<1>2. Ticks(roff) \in 0 .. FULL - 1
  BY TicksFit
<1>3. Ticks(roff) % FULL = Ticks(roff)
  BY <1>2, Widths
<1> QED BY <1>1, <1>2, <1>3, Widths DEF ShownBy

LEMMA DutyIsShown ==
  ASSUME on \in [Channel -> Register], off \in [Channel -> Register], NEW c \in Channel,
         on[c].lo = 0, on[c].hi = 0
  PROVE  Duty(c) = ShownBy(on[c], off[c])
<1>1. on[c] \in Register /\ off[c] \in Register
  OBVIOUS
<1> QED BY <1>1, DutyFromZero DEF Duty, ShownBy

\* A program sets the board up.
SetUp == pca9685Setup \/ pca9685PWMFreq \/ pca9685PWMReset \/ SetupFails

LEMMA InitialBoard == Init => Inv
<1> SUFFICES ASSUME Init PROVE Inv
  OBVIOUS
<1>1. /\ on = [c \in Channel |-> [lo |-> 0, hi |-> 0, full |-> FALSE]]
      /\ off = [c \in Channel |-> [lo |-> 0, hi |-> 0, full |-> TRUE]]
      /\ Word(0, FALSE) \in Register /\ Word(0, TRUE) \in Register
  BY ZeroWord DEF Init
<1>2. /\ ppc = "setup" /\ settings = {} /\ crashes = 0 /\ prescale \in Presc
      /\ call = [c \in Channel |-> Idle] /\ mode \in {{"sleep"}, {"ai"}}
  BY DEF Init
<1>3. TypeOK
  BY <1>1, <1>2, Pca9685Assumption, Widths DEF TypeOK, Idle, Register
<1>4. ASSUME NEW c \in Channel PROVE ChannelInv(c)
  BY <1>1, <1>2 DEF ChannelInv, Idle
<1> QED BY <1>2, <1>3, <1>4 DEF Inv, ModeInv

\* Steps that write MODE1 or a setting.
LEMMA SetupKeeps == Inv /\ SetUp => Inv'
<1> SUFFICES ASSUME Inv, SetUp PROVE Inv'
  OBVIOUS
<1> USE DEF Inv, At
<1>1. ASSUME NEW here, NEW next, ReadSettings(here, next),
             next \in {"autoInc", "sleep"}, next = "sleep" => here = "freq", here # "run"
      PROVE  Inv'
  <2>1. TypeOK'
    BY <1>1 DEF ReadSettings, TypeOK, board
  <2>2. ModeInv'
    BY <1>1 DEF ReadSettings, ModeInv, board
  <2>3. ASSUME NEW c \in Channel PROVE ChannelInv(c)'
    BY <1>1 DEF ReadSettings, ChannelInv, board, Duty
  <2> QED BY <2>1, <2>2, <2>3
<1>2. ASSUME NEW here, NEW next, NEW bits, SetMode1(here, next, bits),
             bits \subseteq {"restart", "sleep", "ai"}, here # "run",
             next \in {"freq", "prescale", "restart", "resetOn"},
             ModeInv'
      PROVE  Inv'
  <2>1. TypeOK'
    BY <1>2 DEF SetMode1, WriteMode1, TypeOK
  <2>2. ASSUME NEW c \in Channel PROVE ChannelInv(c)'
    BY <1>2 DEF SetMode1, ChannelInv, Duty
  <2> QED BY <1>2, <2>1, <2>2
<1>3. CASE pca9685Setup
  <2>1. CASE ReadSettings("setup", "autoInc")
    BY <2>1, <1>1
  <2>2. CASE SetMode1("autoInc", "freq", settings \union {"ai"})
    <3>1. ModeInv'
      BY <2>2 DEF SetMode1, WriteMode1, ModeInv
    <3> QED BY <2>2, <3>1, <1>2 DEF TypeOK
  <2> QED BY <1>3, <2>1, <2>2 DEF pca9685Setup
<1>4. CASE pca9685PWMFreq
  <2>1. CASE ReadSettings("freq", "sleep")
    BY <2>1, <1>1
  <2>2. CASE SetMode1("sleep", "prescale", settings \union {"sleep"})
    <3>1. ModeInv'
      BY <2>2 DEF SetMode1, WriteMode1, ModeInv
    <3> QED BY <2>2, <3>1, <1>2 DEF TypeOK
  <2>3. CASE SetPrescale
    <3>1. prescale' = Rate60
      BY <2>3 DEF SetPrescale, ModeInv
    <3>2. TypeOK'
      BY <2>3, <3>1, Pca9685Assumption DEF SetPrescale, TypeOK
    <3>3. ModeInv'
      BY <2>3, <3>1 DEF SetPrescale, ModeInv
    <3>4. ASSUME NEW c \in Channel PROVE ChannelInv(c)'
      BY <2>3 DEF SetPrescale, ChannelInv, Duty
    <3> QED BY <3>2, <3>3, <3>4
  <2>4. CASE SetMode1("wake", "restart", settings \ {"sleep"})
    <3>1. ModeInv'
      BY <2>4 DEF SetMode1, WriteMode1, ModeInv
    <3> QED BY <2>4, <3>1, <1>2 DEF TypeOK
  <2>5. CASE SetMode1("restart", "resetOn", (settings \ {"sleep"}) \union {"restart"})
    <3>1. settings \ {"sleep"} = {"ai"}
      BY <2>5 DEF SetMode1, ModeInv, TypeOK
    <3>2. mode' = {"ai"}
      BY <2>5, <3>1 DEF SetMode1, WriteMode1
    <3>3. ModeInv'
      BY <2>5, <3>2 DEF SetMode1, ModeInv
    <3> QED BY <2>5, <3>3, <1>2 DEF TypeOK
  <2> QED BY <1>4, <2>1, <2>2, <2>3, <2>4, <2>5 DEF pca9685PWMFreq
<1>5. CASE pca9685PWMReset
  <2>1. UNCHANGED <<mode, prescale, settings, call, crashes>>
    BY <1>5 DEF pca9685PWMReset
  <2>2. CASE At("resetOn", "resetOff") /\ on' = [c \in Channel |-> Write16(on[c], Word(0, FALSE))] /\ UNCHANGED off
    <3>1. on' = [c \in Channel |-> [lo |-> 0, hi |-> 0, full |-> FALSE]]
      BY <2>2, ZeroWord DEF Write16, ModeInv
    <3>2. TypeOK'
      <4>1. on' \in [Channel -> Register]
        BY <3>1, ZeroWord
      <4> QED BY <4>1, <2>1, <2>2 DEF TypeOK
    <3>3. ModeInv'
      BY <2>1, <2>2 DEF ModeInv
    <3>4. ASSUME NEW c \in Channel PROVE ChannelInv(c)'
      <4>1. on'[c] = [lo |-> 0, hi |-> 0, full |-> FALSE]
        BY <3>1
      <4>2. ppc = "resetOn" /\ ppc' = "resetOff" /\ call' = call
        BY <2>1, <2>2
      <4>3. call'[c] = Idle
        BY <4>2 DEF ChannelInv
      <4> QED BY <4>1, <4>2, <4>3 DEF ChannelInv, Idle
    <3> QED BY <3>2, <3>3, <3>4
  <2>3. CASE At("resetOff", "run") /\ off' = [c \in Channel |-> Write16(off[c], Word(0, TRUE))] /\ UNCHANGED on
    <3>1. off' = [c \in Channel |-> [lo |-> 0, hi |-> 0, full |-> TRUE]]
      BY <2>3, ZeroWord DEF Write16, ModeInv
    <3>2. TypeOK'
      <4>1. off' \in [Channel -> Register]
        BY <3>1, ZeroWord
      <4> QED BY <4>1, <2>1, <2>3 DEF TypeOK
    <3>3. ModeInv'
      BY <2>1, <2>3 DEF ModeInv
    <3>4. ASSUME NEW c \in Channel PROVE ChannelInv(c)'
      <4>1. off'[c] = [lo |-> 0, hi |-> 0, full |-> TRUE] /\ on'[c] = on[c]
        BY <2>3, <3>1
      <4>2. ppc = "resetOff" /\ ppc' = "run" /\ call' = call
        BY <2>1, <2>3
      <4>3. call'[c] = Idle
        BY <4>2 DEF ChannelInv
      <4>4. Duty(c)' = 0
        BY <4>1 DEF Duty
      <4>5. Clamped(0) = 0
        BY Widths DEF Clamped
      <4> QED BY <4>1, <4>2, <4>3, <4>4, <4>5 DEF ChannelInv, Idle
    <3> QED BY <3>2, <3>3, <3>4
  <2> QED BY <1>5, <2>2, <2>3 DEF pca9685PWMReset
<1>6. CASE SetupFails
  <2>1. TypeOK'
    BY <1>6 DEF SetupFails, TypeOK, board
  <2>2. ModeInv'
    BY <1>6 DEF SetupFails, ModeInv, board
  <2>3. ASSUME NEW c \in Channel PROVE ChannelInv(c)'
    BY <1>6 DEF SetupFails, ChannelInv, board, Duty
  <2> QED BY <2>1, <2>2, <2>3
<1> QED BY <1>3, <1>4, <1>5, <1>6 DEF SetUp

-----------------------------------------------------------------------------
(* The calls. *)

\* A call touches no channel but its own.
Alone(c) ==
  /\ UNCHANGED <<mode, prescale, ppc, settings, crashes>>
  /\ \A d \in Channel \ {c} : on'[d] = on[d] /\ off'[d] = off[d] /\ call'[d] = call[d]
  /\ on' \in [Channel -> Register] /\ off' \in [Channel -> Register]
  /\ call' \in [Channel -> [pc : {"idle", "readOn", "writeOnHigh", "readOff",
                                 "writeOffHigh", "writeOn", "writeOff"},
                            value : Value \union {0, FULL}, hi : 0 .. NIBBLE - 1]]

\* What a step of a call makes of its channel: the call begins, the duty becomes
\* the one it is about, or it falls from full-on to the ticks kept, or stays.
Effect(c) ==
  \/ /\ call[c].pc = "idle" /\ call'[c].pc # "idle"
     /\ on'[c] = on[c] /\ off'[c] = off[c]
  \/ /\ call[c].pc # "idle" /\ call'[c].value = call[c].value
     /\ ShownBy(on'[c], off'[c]) = Clamped(call[c].value)
     /\ Ticks(off'[c]) = IF Clamped(call[c].value) \in 1 .. FULL - 1
                           THEN Clamped(call[c].value) ELSE Ticks(off[c])
  \/ /\ call[c].pc # "idle" /\ call'[c].value = call[c].value
     /\ call'[c].pc # "idle"
     /\ Ticks(off'[c]) = Ticks(off[c])
     /\ \/ ShownBy(on'[c], off'[c]) = ShownBy(on[c], off[c])
        \/ /\ Clamped(call[c].value) \in 1 .. FULL - 1
           /\ ShownBy(on[c], off[c]) = FULL /\ ShownBy(on'[c], off'[c]) = Ticks(off[c])

Fits(c) ==
  /\ on[c] \in Register /\ off[c] \in Register
  /\ call[c].pc \in {"idle", "readOn", "writeOnHigh", "readOff", "writeOffHigh",
                     "writeOn", "writeOff"}
  /\ call[c].value \in Value \union {0, FULL} /\ call[c].value \in Int
  /\ call[c].hi \in 0 .. NIBBLE - 1
  /\ call[c].pc # "idle" => ppc = "run" /\ mode = {"ai"}

LEMMA ChannelFits == ASSUME Inv, NEW c \in Channel PROVE Fits(c)
<1> ChannelInv(c) /\ ModeInv /\ TypeOK
  BY DEF Inv
<1>1. call[c].pc # "idle" => ppc = "run" /\ mode = {"ai"}
  BY DEF ModeInv, ChannelInv, Idle
<1>2. call[c].value \in Int
  <2>1. call[c].value \in Value \union {0, FULL}
    BY DEF TypeOK
  <2> QED BY <2>1, ValueIsInt
<1> QED BY <1>1, <1>2 DEF TypeOK, Fits

\* A call that begins.
LEMMA StartStep ==
  ASSUME Inv, NEW c \in Channel, NEW v \in Value \union {0, FULL}, NEW pc, Start(c, v, pc),
         \/ pc = "readOn" /\ v >= FULL
         \/ pc = "writeOn" /\ v \in 1 .. FULL - 1
         \/ pc = "readOff" /\ v <= 0
  PROVE  Alone(c) /\ Effect(c) /\ ChannelInv(c)'
<1>1. /\ ppc = "run" /\ call[c].pc = "idle" /\ UNCHANGED <<board, ppc, settings, crashes>>
      /\ call' = [call EXCEPT ![c] = [pc |-> pc, value |-> v, hi |-> 0]]
  BY DEF Start
<1>2. Fits(c) /\ v \in Int /\ call'[c] = [pc |-> pc, value |-> v, hi |-> 0]
  BY <1>1, ChannelFits, Pca9685Assumption, Widths DEF Inv, TypeOK
<1>3. Alone(c)
  BY <1>1, <1>2, Widths DEF Alone, board, Inv, TypeOK
<1>4. Effect(c)
  BY <1>1, <1>2 DEF Effect, board
<1>5. ChannelInv(c)'
  BY <1>1, <1>2, Widths DEF Inv, ChannelInv, board
<1> QED BY <1>3, <1>4, <1>5

LEMMA StartOfCall ==
  ASSUME Inv, NEW c \in Channel, NEW v \in Value, myPwmWrite(c, v) \/ myOnOffWrite(c, v)
  PROVE  Alone(c) /\ Effect(c) /\ ChannelInv(c)'
<1>1. v \in Int /\ FULL \in Nat \ {0}
  BY Pca9685Assumption, Widths
<1>2. CASE myPwmWrite(c, v)
  <2>1. CASE v >= FULL
    BY <2>1, <1>1, <1>2, StartStep DEF myPwmWrite
  <2>2. CASE v > 0 /\ ~(v >= FULL)
    BY <2>2, <1>1, <1>2, StartStep DEF myPwmWrite
  <2>3. CASE ~(v > 0) /\ ~(v >= FULL)
    BY <2>3, <1>1, <1>2, StartStep DEF myPwmWrite
  <2> QED BY <2>1, <2>2, <2>3, <1>1
<1>3. CASE myOnOffWrite(c, v)
  <2>1. CASE v # 0
    BY <2>1, <1>1, <1>3, StartStep DEF myOnOffWrite
  <2>2. CASE v = 0
    BY <2>2, <1>1, <1>3, StartStep DEF myOnOffWrite
  <2> QED BY <2>1, <2>2
<1> QED BY <1>2, <1>3

\* The duty of a value, by its three cases.
LEMMA ClampedCases ==
  ASSUME NEW v \in Int
  PROVE  /\ v >= FULL => Clamped(v) = FULL
         /\ v \in 1 .. FULL - 1 => Clamped(v) = v
         /\ v <= 0 => Clamped(v) = 0
  BY Widths DEF Clamped

\* The two writes of a value between off and full-on.
LEMMA PWMWriteStep ==
  ASSUME Inv, NEW c \in Channel, pca9685PWMWrite(c)
  PROVE  Alone(c) /\ Effect(c) /\ ChannelInv(c)'
<1>1. Fits(c) /\ ChannelInv(c) /\ TypeOK
  BY ChannelFits DEF Inv
<1>2. CASE /\ Step(c, "writeOn", "writeOff") /\ UNCHANGED off
           /\ on' = [on EXCEPT ![c] = Write16(@, Word(0, FALSE))]
  <2>1. /\ call[c].pc = "writeOn" /\ call' = [call EXCEPT ![c].pc = "writeOff"]
        /\ UNCHANGED <<mode, prescale, ppc, settings, crashes>>
    BY <1>2 DEF Step
  <2>2. on'[c] = [lo |-> 0, hi |-> 0, full |-> FALSE] /\ on'[c] \in Register
    BY <1>1, <1>2, <2>1, ZeroWord DEF Write16, Fits, TypeOK
  <2>3. /\ call'[c].pc = "writeOff" /\ call'[c].value = call[c].value
        /\ call'[c].hi = call[c].hi
    BY <1>1, <2>1 DEF TypeOK
  <2>4. Alone(c)
    <3>1. on' \in [Channel -> Register] /\ \A d \in Channel \ {c} : on'[d] = on[d]
      BY <1>1, <1>2, <2>2 DEF TypeOK
    <3>2. /\ call' \in [Channel -> [pc : {"idle", "readOn", "writeOnHigh", "readOff",
                                       "writeOffHigh", "writeOn", "writeOff"},
                                  value : Value \union {0, FULL}, hi : 0 .. NIBBLE - 1]]
          /\ \A d \in Channel \ {c} : call'[d] = call[d]
      BY <1>1, <2>1 DEF TypeOK
    <3>3. off' = off /\ off \in [Channel -> Register]
      BY <1>1, <1>2 DEF TypeOK
    <3> QED BY <2>1, <3>1, <3>2, <3>3 DEF Alone
  <2>5. call[c].value \in 1 .. FULL - 1 /\ Clamped(call[c].value) = call[c].value
    BY <1>1, <2>1, ClampedCases DEF ChannelInv, Fits
  <2>6. Effect(c)
    <3>1. off'[c] = off[c] /\ ~on'[c].full
      <4>1. off' = off
        BY <1>2
      <4>2. on'[c].full = FALSE
        BY <2>2
      <4> QED BY <4>1, <4>2
    <3>2. call[c].pc # "idle" /\ call'[c].pc # "idle"
      BY <2>1, <2>3
    <3>3. CASE ~off[c].full /\ on[c].full
      BY <2>3, <2>5, <3>1, <3>2, <3>3 DEF Effect, ShownBy
    <3>4. CASE ~(~off[c].full /\ on[c].full)
      <4>1. ShownBy(on'[c], off'[c]) = ShownBy(on[c], off[c])
        BY <3>1, <3>4 DEF ShownBy
      <4> QED BY <2>3, <3>1, <3>2, <4>1 DEF Effect
    <3> QED BY <3>3, <3>4
  <2>7. ChannelInv(c)'
    <3>1. ppc = "run" /\ ppc' = "run"
      BY <1>1, <1>2, <2>1 DEF Fits, Step
    <3>2. on'[c].lo = 0 /\ on'[c].hi = 0 /\ ~on'[c].full
      BY <2>2
    <3> QED BY <2>3, <2>5, <3>1, <3>2 DEF ChannelInv
  <2> QED BY <2>4, <2>6, <2>7
<1>3. CASE /\ Step(c, "writeOff", "idle") /\ UNCHANGED on
           /\ off' = [off EXCEPT ![c] = Write16(@, Word(call[c].value, FALSE))]
  <2>1. /\ call[c].pc = "writeOff" /\ call' = [call EXCEPT ![c].pc = "idle"]
        /\ UNCHANGED <<mode, prescale, ppc, settings, crashes>>
    BY <1>3 DEF Step
  <2>2. call[c].value \in 1 .. FULL - 1 /\ Clamped(call[c].value) = call[c].value
    BY <1>1, <2>1, ClampedCases DEF ChannelInv, Fits
  <2>3. /\ off'[c] = Word(call[c].value, FALSE)
        /\ off'[c] \in Register /\ Ticks(off'[c]) = call[c].value /\ ~off'[c].full
    <3>1. /\ Word(call[c].value, FALSE) \in Register
          /\ Ticks(Word(call[c].value, FALSE)) = call[c].value
          /\ Word(call[c].value, FALSE).full = FALSE
      <4>1. FALSE \in BOOLEAN /\ call[c].value \in 0 .. FULL - 1
        BY <2>2, Widths
      <4> QED BY <4>1, WordHoldsTicks
    <3>2. "ai" \in mode
      BY <1>1, <2>1 DEF Fits
    <3>3. off'[c] = Word(call[c].value, FALSE)
      BY <1>1, <1>3, <3>2 DEF Write16, TypeOK
    <3> QED BY <3>1, <3>3
  <2>4. call'[c].pc = "idle" /\ call'[c].value = call[c].value
    BY <1>1, <2>1 DEF TypeOK
  <2>5. Alone(c)
    <3>1. off' \in [Channel -> Register] /\ \A d \in Channel \ {c} : off'[d] = off[d]
      BY <1>1, <1>3, <2>3 DEF TypeOK
    <3>2. /\ call' \in [Channel -> [pc : {"idle", "readOn", "writeOnHigh", "readOff",
                                       "writeOffHigh", "writeOn", "writeOff"},
                                  value : Value \union {0, FULL}, hi : 0 .. NIBBLE - 1]]
          /\ \A d \in Channel \ {c} : call'[d] = call[d]
      BY <1>1, <2>1 DEF TypeOK
    <3>3. on' = on /\ on \in [Channel -> Register]
      BY <1>1, <1>3 DEF TypeOK
    <3> QED BY <2>1, <3>1, <3>2, <3>3 DEF Alone
  <2>6. ~on'[c].full /\ on'[c] = on[c] /\ on[c].lo = 0 /\ on[c].hi = 0
    BY <1>1, <1>3, <2>1 DEF ChannelInv
  <2>7. ShownBy(on'[c], off'[c]) = call[c].value
    BY <2>3, <2>6 DEF ShownBy
  <2>8. Effect(c)
    BY <2>1, <2>2, <2>3, <2>4, <2>7 DEF Effect
  <2>9. Duty(c)' = ShownBy(on'[c], off'[c])
    BY <1>1, <2>3, <2>6, DutyFromZero DEF Duty, ShownBy, Fits
  <2>10. ChannelInv(c)'
    BY <1>1, <1>3, <2>2, <2>4, <2>6, <2>7, <2>9, <2>1 DEF ChannelInv, Step, Fits
  <2> QED BY <2>5, <2>8, <2>10
<1> QED BY <1>2, <1>3 DEF pca9685PWMWrite

\* A reading of a high register.
LEMMA ReadHighStep ==
  ASSUME Inv, NEW c \in Channel, NEW here, NEW next, NEW hi \in 0 .. NIBBLE - 1,
         ReadHigh(c, here, next, hi),
         \/ here = "readOn" /\ next = "writeOnHigh" /\ hi = on[c].hi
         \/ here = "readOff" /\ next = "writeOffHigh" /\ hi = off[c].hi
  PROVE  Alone(c) /\ Effect(c) /\ ChannelInv(c)'
<1>1. Fits(c) /\ ChannelInv(c) /\ TypeOK
  BY ChannelFits DEF Inv
<1>2. /\ call[c].pc = here /\ UNCHANGED <<board, ppc, settings, crashes>>
      /\ call' = [call EXCEPT ![c].pc = next, ![c].hi = hi]
  BY DEF ReadHigh
<1>3. call'[c].pc = next /\ call'[c].value = call[c].value /\ call'[c].hi = hi
  BY <1>1, <1>2 DEF TypeOK
<1>4. Alone(c)
  BY <1>1, <1>2, <1>3 DEF Alone, board, TypeOK
<1>5. Effect(c)
  BY <1>2, <1>3 DEF Effect, board
<1>6. ChannelInv(c)'
  BY <1>1, <1>2, <1>3 DEF ChannelInv, board, Fits
<1> QED BY <1>4, <1>5, <1>6

\* The full bit of the on register is set.
LEMMA FullOnStep ==
  ASSUME Inv, NEW c \in Channel, pca9685FullOn(c)
  PROVE  Alone(c) /\ Effect(c) /\ ChannelInv(c)'
<1>1. Fits(c) /\ ChannelInv(c) /\ TypeOK
  BY ChannelFits DEF Inv
<1>2. on[c].hi \in 0 .. NIBBLE - 1
  BY <1>1 DEF Fits, Register
<1>3. CASE ReadHigh(c, "readOn", "writeOnHigh", on[c].hi)
  BY <1>2, <1>3, ReadHighStep
<1>4. CASE /\ Step(c, "writeOnHigh", "readOff") /\ UNCHANGED off
           /\ on' = [on EXCEPT ![c].hi = call[c].hi, ![c].full = TRUE]
  <2>1. /\ call[c].pc = "writeOnHigh" /\ call' = [call EXCEPT ![c].pc = "readOff"]
        /\ UNCHANGED <<mode, prescale, ppc, settings, crashes>>
    BY <1>4 DEF Step
  <2>2. call[c].value >= FULL /\ call[c].hi = 0 /\ Clamped(call[c].value) = FULL
    BY <1>1, <2>1, ClampedCases DEF ChannelInv, Fits
  <2>3. on'[c] = [lo |-> on[c].lo, hi |-> 0, full |-> TRUE] /\ on'[c] \in Register
    BY <1>1, <1>4, <2>2, Widths DEF TypeOK, Fits, Register
  <2>4. call'[c].pc = "readOff" /\ call'[c].value = call[c].value /\ call'[c].hi = 0
    BY <1>1, <2>1, <2>2 DEF TypeOK
  <2>5. Alone(c)
    BY <1>1, <1>4, <2>1, <2>3 DEF Alone, TypeOK
  <2>6. Effect(c)
    <3>1. off'[c] = off[c] /\ FULL \notin 1 .. FULL - 1
      BY <1>4, Widths
    <3>2. CASE off[c].full
      BY <2>1, <2>4, <3>1, <3>2 DEF Effect, ShownBy
    <3>3. CASE ~off[c].full
      <4>1. ShownBy(on'[c], off'[c]) = FULL
        BY <2>3, <3>1, <3>3 DEF ShownBy
      <4> QED BY <2>1, <2>2, <2>4, <3>1, <4>1 DEF Effect
    <3> QED BY <3>2, <3>3
  <2>7. ChannelInv(c)'
    BY <1>1, <2>1, <2>2, <2>3, <2>4 DEF ChannelInv, Fits
  <2> QED BY <2>5, <2>6, <2>7
<1> QED BY <1>3, <1>4 DEF pca9685FullOn

\* The full bit of the off register is set, or cleared at the end of full-on.
LEMMA FullOffStep ==
  ASSUME Inv, NEW c \in Channel, pca9685FullOff(c)
  PROVE  Alone(c) /\ Effect(c) /\ ChannelInv(c)'
<1>1. Fits(c) /\ ChannelInv(c) /\ TypeOK
  BY ChannelFits DEF Inv
<1>2. off[c].hi \in 0 .. NIBBLE - 1
  BY <1>1 DEF Fits, Register
<1>3. CASE ReadHigh(c, "readOff", "writeOffHigh", off[c].hi)
  BY <1>2, <1>3, ReadHighStep
<1>4. CASE /\ Step(c, "writeOffHigh", "idle") /\ UNCHANGED on
           /\ off' = [off EXCEPT ![c].hi = call[c].hi, ![c].full = call[c].value <= 0]
  <2>1. /\ call[c].pc = "writeOffHigh" /\ call' = [call EXCEPT ![c].pc = "idle"]
        /\ UNCHANGED <<mode, prescale, ppc, settings, crashes>>
    BY <1>4 DEF Step
  <2>2. /\ call[c].value <= 0 \/ (call[c].value >= FULL /\ on[c].full)
        /\ call[c].hi = off[c].hi /\ call[c].value \in Int
        /\ on[c].lo = 0 /\ on[c].hi = 0
    BY <1>1, <2>1 DEF ChannelInv, Fits
  <2> DEFINE f == call[c].value <= 0
  <2>a. f \in BOOLEAN /\ (f <=> call[c].value <= 0)
    OBVIOUS
  <2>b. off' = [off EXCEPT ![c].hi = call[c].hi, ![c].full = f]
    BY <1>4
  <2> HIDE DEF f
  <2>3. /\ off'[c] = [lo |-> off[c].lo, hi |-> off[c].hi, full |-> f]
        /\ off'[c] \in Register /\ on'[c] = on[c] /\ on[c] \in Register
        /\ off'[c].full <=> call[c].value <= 0
    <3>1. off'[c] = [off[c] EXCEPT !.hi = call[c].hi, !.full = f] /\ on'[c] = on[c]
      BY <1>1, <1>4, <2>b DEF TypeOK
    <3>2. on[c] \in Register /\ off[c] \in Register
      BY <1>1 DEF Fits
    <3>3. off'[c] = [lo |-> off[c].lo, hi |-> off[c].hi, full |-> f]
      BY <2>2, <3>1, <3>2 DEF Register
    <3> QED BY <2>a, <3>1, <3>2, <3>3 DEF Register
  <2>4. call'[c].pc = "idle" /\ call'[c].value = call[c].value
    BY <1>1, <2>1 DEF TypeOK
  <2>5. Alone(c)
    BY <1>1, <1>4, <2>1, <2>3 DEF Alone, TypeOK
  <2>6. Ticks(off'[c]) = Ticks(off[c])
    BY <2>3 DEF Ticks
  <2>7. ShownBy(on'[c], off'[c]) = Clamped(call[c].value) /\ Clamped(call[c].value) \notin 1 .. FULL - 1
    <3>1. CASE call[c].value <= 0
      <4>1. off'[c].full /\ Clamped(call[c].value) = 0
        BY <2>2, <2>3, <3>1, ClampedCases
      <4> QED BY <4>1 DEF ShownBy
    <3>2. CASE call[c].value >= FULL /\ on[c].full
      <4>1. ~off'[c].full
        BY <2>2, <2>3, <3>2, Widths
      <4> QED BY <2>2, <2>3, <3>2, <4>1, ClampedCases, Widths DEF ShownBy
    <3> QED BY <2>2, <3>1, <3>2
  <2>8. Effect(c)
    BY <2>1, <2>4, <2>6, <2>7 DEF Effect
  <2>9. Duty(c)' = ShownBy(on'[c], off'[c])
    BY <2>2, <2>3, DutyFromZero DEF Duty, ShownBy
  <2>10. ChannelInv(c)'
    BY <1>1, <2>1, <2>2, <2>3, <2>4, <2>7, <2>9 DEF ChannelInv, Fits
  <2> QED BY <2>5, <2>8, <2>10
<1> QED BY <1>3, <1>4 DEF pca9685FullOff

LEMMA CallStep ==
  ASSUME Inv, NEW c \in Channel, Call(c)
  PROVE  Alone(c) /\ Effect(c) /\ Inv'
<1>1. Alone(c) /\ Effect(c) /\ ChannelInv(c)'
  BY StartOfCall, PWMWriteStep, FullOnStep, FullOffStep DEF Call
<1>2. ASSUME NEW d \in Channel \ {c} PROVE ChannelInv(d)'
  BY <1>1 DEF Alone, Inv, ChannelInv, Duty
<1>3. TypeOK'
  BY <1>1 DEF Alone, Inv, TypeOK
<1>4. ModeInv'
  BY <1>1 DEF Alone, Inv, ModeInv
<1> QED BY <1>1, <1>2, <1>3, <1>4 DEF Inv

\* What a step of the setup makes of the channels: nothing, or the first or the
\* second half of the reset.
SetUpEffect ==
  /\ call' = call /\ \A c \in Channel : call[c].pc = "idle"
  /\ \/ on' = on /\ off' = off
     \/ \A c \in Channel :
          /\ off'[c] = off[c]
          /\ ShownBy(on'[c], off'[c]) =
               IF ShownBy(on[c], off[c]) = FULL THEN Ticks(off[c]) ELSE ShownBy(on[c], off[c])
     \/ \A c \in Channel : ShownBy(on'[c], off'[c]) = 0 /\ Ticks(off'[c]) = 0

LEMMA SetUpStep == ASSUME Inv, SetUp PROVE SetUpEffect
<1>1. ppc # "run"
  BY DEF SetUp, pca9685Setup, pca9685PWMFreq, pca9685PWMReset, SetupFails, ReadSettings,
         SetMode1, SetPrescale, At
<1>2. \A c \in Channel : call[c].pc = "idle"
  <2> SUFFICES ASSUME NEW c \in Channel PROVE call[c].pc = "idle"
    OBVIOUS
  <2>1. call[c] = Idle
    BY <1>1 DEF Inv, ChannelInv
  <2> QED BY <2>1 DEF Idle
<1>3. CASE pca9685PWMReset
  <2>1. CASE At("resetOn", "resetOff") /\ on' = [c \in Channel |-> Write16(on[c], Word(0, FALSE))] /\ UNCHANGED off
    <3>1. mode = {"ai"} /\ call' = call
      BY <2>1 DEF At, Inv, ModeInv
    <3>2. ASSUME NEW c \in Channel
          PROVE  /\ off'[c] = off[c]
                 /\ ShownBy(on'[c], off'[c]) =
                      IF ShownBy(on[c], off[c]) = FULL THEN Ticks(off[c]) ELSE ShownBy(on[c], off[c])
      <4>1. on'[c] = [lo |-> 0, hi |-> 0, full |-> FALSE]
        BY <2>1, <3>1, ZeroWord DEF Write16
      <4>2. on'[c].full = FALSE /\ off'[c] = off[c]
        BY <4>1, <2>1
      <4>3. Ticks(off[c]) \in 0 .. FULL - 1
        BY TicksFit DEF Inv, TypeOK
      <4>4. FULL # 0 /\ Ticks(off[c]) # FULL
        BY <4>3, Widths
      <4>5. CASE off[c].full
        BY <4>2, <4>4, <4>5 DEF ShownBy
      <4>6. CASE ~off[c].full
        BY <4>2, <4>4, <4>6 DEF ShownBy
      <4> QED BY <4>2, <4>5, <4>6
    <3> QED BY <3>1, <3>2, <1>2 DEF SetUpEffect
  <2>2. CASE At("resetOff", "run") /\ off' = [c \in Channel |-> Write16(off[c], Word(0, TRUE))] /\ UNCHANGED on
    <3>1. mode = {"ai"} /\ call' = call
      BY <2>2 DEF At, Inv, ModeInv
    <3>2. ASSUME NEW c \in Channel PROVE ShownBy(on'[c], off'[c]) = 0 /\ Ticks(off'[c]) = 0
      <4>1. off'[c] = Word(0, TRUE)
        BY <2>2, <3>1 DEF Write16
      <4>2. off'[c] = [lo |-> 0, hi |-> 0, full |-> TRUE] /\ Ticks(off'[c]) = 0
        BY <4>1, ZeroWord
      <4> QED BY <4>2 DEF ShownBy
    <3> QED BY <3>1, <3>2, <1>2 DEF SetUpEffect
  <2> QED BY <1>3, <2>1, <2>2 DEF pca9685PWMReset
<1>4. ASSUME ~pca9685PWMReset PROVE on' = on /\ off' = off /\ call' = call
  BY <1>4 DEF SetUp, pca9685Setup, pca9685PWMFreq, SetupFails, ReadSettings, SetMode1,
              SetPrescale, At, board
<1> QED BY <1>2, <1>3, <1>4 DEF SetUpEffect

LEMMA CrashKeeps == ASSUME Inv, CrashAndRestart PROVE Inv'
<1>1. TypeOK'
  BY Widths, Pca9685Assumption DEF Inv, CrashAndRestart, TypeOK, board, Idle
<1>2. ModeInv'
  BY DEF CrashAndRestart, ModeInv
<1>3. ASSUME NEW c \in Channel PROVE ChannelInv(c)'
  <2>1. call'[c] = Idle /\ on'[c] = on[c] /\ off'[c] = off[c] /\ ppc' = "setup"
    BY DEF CrashAndRestart, board
  <2> QED BY <2>1 DEF Inv, ChannelInv, Idle
<1> QED BY <1>1, <1>2, <1>3 DEF Inv

LEMMA BoardInvariant == Spec => []Inv
<1>1. Inv /\ [Next]_vars => Inv'
  <2> SUFFICES ASSUME Inv, [Next]_vars PROVE Inv'
    OBVIOUS
  <2>1. CASE UNCHANGED vars
    BY <2>1 DEF vars, board, program, Inv, TypeOK, ModeInv, ChannelInv, Duty
  <2>2. CASE \E c \in Channel : Call(c)
    BY <2>2, CallStep
  <2> QED BY <2>1, <2>2, SetupKeeps, CrashKeeps DEF Next, SetUp
<1> QED BY <1>1, InitialBoard, PTL DEF Spec

-----------------------------------------------------------------------------
(* The theorems. *)

\* Registers hold what fits into them, locals what was read.
THEOREM BoardTypeCorrect == Spec => []TypeOK
  BY BoardInvariant, PTL DEF Inv

\* After a setup the board is awake, at its frequency, and counts registers up.
THEOREM BoardRunsAfterSetup == Spec => []BoardRuns
<1>1. Inv => BoardRuns
  BY DEF Inv, ModeInv, BoardRuns
<1> QED BY <1>1, BoardInvariant, PTL

\* Between its calls a channel shows what the last one asked for.
THEOREM ChannelsSettle == Spec => []Settled
<1>1. Inv => Settled
  BY DEF Inv, ChannelInv, Settled
<1> QED BY <1>1, BoardInvariant, PTL

\* Duties are those of ShownBy, before a step and after it.
LEMMA Duties ==
  ASSUME Inv
  PROVE  \A c \in Channel : /\ Duty(c) = ShownBy(on[c], off[c])
                            /\ Duty(c) \in 0 .. FULL /\ Ticks(off[c]) \in 0 .. FULL - 1
<1> SUFFICES ASSUME NEW c \in Channel
             PROVE  /\ Duty(c) = ShownBy(on[c], off[c])
                    /\ Duty(c) \in 0 .. FULL /\ Ticks(off[c]) \in 0 .. FULL - 1
  OBVIOUS
<1>1. on[c] \in Register /\ off[c] \in Register /\ on[c].lo = 0 /\ on[c].hi = 0
  BY DEF Inv, TypeOK, ChannelInv
<1> QED BY <1>1, DutyFromZero, DutyIsShown DEF Inv, TypeOK

LEMMA DutiesAfter ==
  ASSUME Inv'
  PROVE  \A c \in Channel : /\ Duty(c)' = ShownBy(on'[c], off'[c])
                            /\ Duty(c)' \in 0 .. FULL
<1> SUFFICES ASSUME NEW c \in Channel
             PROVE  Duty(c)' = ShownBy(on'[c], off'[c]) /\ Duty(c)' \in 0 .. FULL
  OBVIOUS
<1>1. on'[c] \in Register /\ off'[c] \in Register /\ on'[c].lo = 0 /\ on'[c].hi = 0
  BY DEF Inv, TypeOK, ChannelInv
<1> QED BY <1>1, DutyFromZero DEF Duty, ShownBy

LEMMA CallValueIsInt == ASSUME Inv, NEW c \in Channel PROVE call[c].value \in Int
  BY ChannelFits DEF Fits

\* No step raises a duty but to the value of a call for the channel.
THEOREM DutiesNeverSurge == Spec => NoSurge
<1> DEFINE Quiet == \A c \in Channel :
      Duty(c)' > Duty(c) => call[c].pc # "idle" /\ Duty(c)' = Clamped(call[c].value)
<1>1. Inv /\ Inv' /\ [Next]_vars => [Quiet]_vars
  <2> SUFFICES ASSUME Inv, Inv', Next, NEW c \in Channel, Duty(c)' > Duty(c)
               PROVE  call[c].pc # "idle" /\ Duty(c)' = Clamped(call[c].value)
    OBVIOUS
  <2>1. /\ Duty(c) = ShownBy(on[c], off[c]) /\ Duty(c)' = ShownBy(on'[c], off'[c])
        /\ Duty(c) \in 0 .. FULL /\ Duty(c)' \in 0 .. FULL /\ Ticks(off[c]) \in 0 .. FULL - 1
        /\ FULL \in Nat
    BY Duties, DutiesAfter, Widths
  <2>2. ASSUME NEW d \in Channel, Call(d) PROVE call[c].pc # "idle" /\ Duty(c)' = Clamped(call[c].value)
    <3>1. Alone(d) /\ Effect(d)
      BY <2>2, CallStep
    <3>2. d = c
      <4> SUFFICES ASSUME d # c PROVE FALSE
        OBVIOUS
      <4>1. on'[c] = on[c] /\ off'[c] = off[c]
        BY <3>1 DEF Alone
      <4> QED BY <2>1, <4>1
    <3>3. Effect(c)
      BY <3>1, <3>2
    <3> QED BY <2>1, <3>3 DEF Effect
  <2>3. ~SetUp
    <3> SUFFICES ASSUME SetUp PROVE FALSE
      OBVIOUS
    <3>1. SetUpEffect
      BY SetUpStep
    <3> QED BY <2>1, <3>1 DEF SetUpEffect
  <2>4. ~CrashAndRestart
    <3> SUFFICES ASSUME CrashAndRestart PROVE FALSE
      OBVIOUS
    <3>1. on' = on /\ off' = off
      BY DEF CrashAndRestart, board
    <3> QED BY <2>1, <3>1
  <2> QED BY <2>2, <2>3, <2>4 DEF Next, SetUp
<1> QED BY <1>1, BoardInvariant, PTL DEF Spec, NoSurge

-----------------------------------------------------------------------------
(* The driver implements the board that PwmBoard promises. *)

AskedBy(x) == IF x.pc = "idle" THEN -1 ELSE Clamped(x.value)

LEMMA InitialPromise == Init => Promise!Init
<1> SUFFICES ASSUME Init PROVE Promise!Init
  OBVIOUS
<1>1. ASSUME NEW c \in Channel
      PROVE  Duty(c) = 0 /\ Ticks(off[c]) = 0 /\ call[c].pc = "idle"
  <2>1. off[c] = [lo |-> 0, hi |-> 0, full |-> TRUE] /\ Ticks(off[c]) = 0
    BY ZeroWord DEF Init
  <2>2. off[c].full = TRUE
    BY <2>1
  <2>3. call[c].pc = "idle"
    BY DEF Init, Idle
  <2> QED BY <2>1, <2>2, <2>3 DEF Duty
<1> QED BY <1>1 DEF Promise!Init, Promise!None

LEMMA PromisedStep ==
  ASSUME Inv, Inv', [Next]_vars
  PROVE  \/ Promise!Next
         \/ UNCHANGED <<[c \in Channel |-> Duty(c)], [c \in Channel |-> Ticks(off[c])],
                        [c \in Channel |-> IF call[c].pc = "idle" THEN -1
                                           ELSE Clamped(call[c].value)]>>
<1> DEFINE duty == [c \in Channel |-> Duty(c)]
           kept == [c \in Channel |-> Ticks(off[c])]
           asked == [c \in Channel |-> IF call[c].pc = "idle" THEN -1
                                       ELSE Clamped(call[c].value)]
<1>1. ASSUME NEW c \in Channel
      PROVE  /\ duty[c] = ShownBy(on[c], off[c]) /\ duty'[c] = ShownBy(on'[c], off'[c])
             /\ kept[c] = Ticks(off[c]) /\ kept'[c] = Ticks(off'[c])
             /\ asked[c] = AskedBy(call[c]) /\ asked'[c] = AskedBy(call'[c])
             /\ duty[c] \in 0 .. FULL /\ kept[c] \in 0 .. FULL - 1
  BY Duties, DutiesAfter DEF AskedBy
<1>2. /\ duty = [c \in Channel |-> duty[c]] /\ duty' = [c \in Channel |-> duty'[c]]
      /\ kept = [c \in Channel |-> kept[c]] /\ kept' = [c \in Channel |-> kept'[c]]
      /\ asked = [c \in Channel |-> asked[c]] /\ asked' = [c \in Channel |-> asked'[c]]
  OBVIOUS
<1> DEFINE
  Ask(c, d) == /\ asked[c] = -1 /\ asked' = [asked EXCEPT ![c] = d]
               /\ duty' = duty /\ kept' = kept
  Show(c) == /\ asked[c] # -1
             /\ duty' = [duty EXCEPT ![c] = asked[c]]
             /\ kept' = [kept EXCEPT ![c] = IF asked[c] \in 1 .. FULL - 1 THEN asked[c] ELSE kept[c]]
             /\ asked' \in {asked, [asked EXCEPT ![c] = -1]}
  Detour(c) == /\ asked[c] \in 1 .. FULL - 1 /\ duty[c] = FULL
               /\ duty' = [duty EXCEPT ![c] = kept[c]]
               /\ kept' = kept /\ asked' = asked
  Crash == asked' = [c \in Channel |-> -1] /\ duty' = duty /\ kept' = kept
  Quieten == /\ \A c \in Channel : asked[c] = -1
             /\ \/ /\ duty' = [c \in Channel |-> IF duty[c] = FULL THEN kept[c] ELSE duty[c]]
                   /\ kept' = kept
                \/ /\ duty' = [c \in Channel |-> 0]
                   /\ kept' = [c \in Channel |-> 0]
             /\ asked' = asked
  Stay == duty' = duty /\ kept' = kept /\ asked' = asked
<1>3. ASSUME NEW c \in Channel, NEW d, Ask(c, d) PROVE Promise!Ask(c, d)
  BY <1>3 DEF Promise!Ask, Promise!None
<1>4. ASSUME NEW c \in Channel, Show(c) PROVE Promise!Show(c)
  BY <1>4 DEF Promise!Show, Promise!None
<1>5. ASSUME NEW c \in Channel, Detour(c) PROVE Promise!Detour(c)
  BY <1>5 DEF Promise!Detour
<1>6. Crash => Promise!Crash
  BY DEF Promise!Crash, Promise!None
<1>7. Quieten => Promise!Quieten
  BY DEF Promise!Quieten, Promise!None
<1>8. SUFFICES \/ \E c \in Channel : (\E d \in 0 .. FULL : Ask(c, d)) \/ Show(c) \/ Detour(c)
              \/ Crash \/ Quieten \/ Stay
  BY <1>3, <1>4, <1>5, <1>6, <1>7 DEF Promise!Next
<1> HIDE DEF duty, kept, asked
<1>9. ASSUME NEW c \in Channel, Call(c)
      PROVE  (\E d \in 0 .. FULL : Ask(c, d)) \/ Show(c) \/ Detour(c) \/ Stay
  <2>1. Alone(c) /\ Effect(c)
    BY <1>9, CallStep
  <2>2. \A d \in Channel \ {c} : duty'[d] = duty[d] /\ kept'[d] = kept[d] /\ asked'[d] = asked[d]
    BY <1>1, <2>1 DEF Alone
  <2>3. Clamped(call[c].value) \in 0 .. FULL /\ Clamped(call'[c].value) \in 0 .. FULL
    <3>1. call[c].value \in Int /\ call'[c].value \in Value \union {0, FULL}
      BY <2>1, CallValueIsInt DEF Alone
    <3>2. call'[c].value \in Int
      BY <3>1, ValueIsInt
    <3> QED BY <3>1, <3>2, ClampedIsDuty
  <2>4. CASE /\ call[c].pc = "idle" /\ call'[c].pc # "idle"
             /\ on'[c] = on[c] /\ off'[c] = off[c]
    <3>1. /\ asked[c] = -1 /\ asked'[c] \in 0 .. FULL
          /\ duty'[c] = duty[c] /\ kept'[c] = kept[c]
      BY <1>1, <2>3, <2>4 DEF AskedBy
    <3>2. Ask(c, asked'[c])
      BY <1>2, <2>2, <3>1
    <3> QED BY <3>1, <3>2
  <2>5. CASE /\ call[c].pc # "idle" /\ call'[c].value = call[c].value
             /\ ShownBy(on'[c], off'[c]) = Clamped(call[c].value)
             /\ Ticks(off'[c]) = IF Clamped(call[c].value) \in 1 .. FULL - 1
                                   THEN Clamped(call[c].value) ELSE Ticks(off[c])
    <3>1. /\ asked[c] # -1 /\ duty'[c] = asked[c]
          /\ kept'[c] = IF asked[c] \in 1 .. FULL - 1 THEN asked[c] ELSE kept[c]
          /\ asked'[c] = asked[c] \/ asked'[c] = -1
      BY <1>1, <2>3, <2>5 DEF AskedBy
    <3>2. /\ duty' = [duty EXCEPT ![c] = asked[c]]
          /\ kept' = [kept EXCEPT ![c] = IF asked[c] \in 1 .. FULL - 1 THEN asked[c] ELSE kept[c]]
      BY <1>2, <2>2, <3>1
    <3>3. asked' \in {asked, [asked EXCEPT ![c] = -1]}
      <4>1. CASE asked'[c] = asked[c]
        BY <1>2, <2>2, <4>1
      <4>2. CASE asked'[c] = -1
        BY <1>2, <2>2, <4>2
      <4> QED BY <3>1, <4>1, <4>2
    <3> QED BY <3>1, <3>2, <3>3
  <2>6. CASE /\ call[c].pc # "idle" /\ call'[c].value = call[c].value
             /\ call'[c].pc # "idle"
             /\ Ticks(off'[c]) = Ticks(off[c])
             /\ \/ ShownBy(on'[c], off'[c]) = ShownBy(on[c], off[c])
                \/ /\ Clamped(call[c].value) \in 1 .. FULL - 1
                   /\ ShownBy(on[c], off[c]) = FULL /\ ShownBy(on'[c], off'[c]) = Ticks(off[c])
    <3>1. /\ asked'[c] = asked[c] /\ kept'[c] = kept[c]
          /\ asked[c] = Clamped(call[c].value)
      BY <1>1, <2>6 DEF AskedBy
    <3>2. kept' = kept /\ asked' = asked
      BY <1>2, <2>2, <3>1
    <3>3. CASE duty'[c] = duty[c]
      <4>1. duty' = duty
        BY <1>2, <2>2, <3>3
      <4> QED BY <3>2, <4>1
    <3>4. CASE asked[c] \in 1 .. FULL - 1 /\ duty[c] = FULL /\ duty'[c] = kept[c]
      <4>1. duty' = [duty EXCEPT ![c] = kept[c]]
        BY <1>2, <2>2, <3>4
      <4> QED BY <3>2, <3>4, <4>1
    <3> QED BY <1>1, <2>6, <3>1, <3>3, <3>4
  <2> QED BY <2>1, <2>4, <2>5, <2>6 DEF Effect
<1>10. CASE SetUp
  <2>1. SetUpEffect
    BY <1>10, SetUpStep
  <2>2. \A c \in Channel : asked[c] = -1 /\ asked'[c] = -1
    BY <1>1, <2>1 DEF SetUpEffect, AskedBy
  <2>3. asked' = asked
    BY <1>2, <2>2
  <2>4. CASE on' = on /\ off' = off
    <3>1. \A c \in Channel : duty'[c] = duty[c] /\ kept'[c] = kept[c]
      BY <1>1, <2>4
    <3>2. duty' = duty /\ kept' = kept
      BY <1>2, <3>1
    <3> QED BY <2>3, <3>2
  <2>5. CASE \A c \in Channel :
               /\ off'[c] = off[c]
               /\ ShownBy(on'[c], off'[c]) =
                    IF ShownBy(on[c], off[c]) = FULL THEN Ticks(off[c]) ELSE ShownBy(on[c], off[c])
    <3>1. \A c \in Channel : /\ duty'[c] = IF duty[c] = FULL THEN kept[c] ELSE duty[c]
                             /\ kept'[c] = kept[c]
      BY <1>1, <2>5
    <3>2. /\ duty' = [c \in Channel |-> IF duty[c] = FULL THEN kept[c] ELSE duty[c]]
          /\ kept' = kept
      BY <1>2, <3>1
    <3> QED BY <2>2, <2>3, <3>2
  <2>6. CASE \A c \in Channel : ShownBy(on'[c], off'[c]) = 0 /\ Ticks(off'[c]) = 0
    <3>1. \A c \in Channel : duty'[c] = 0 /\ kept'[c] = 0
      BY <1>1, <2>6
    <3>2. duty' = [c \in Channel |-> 0] /\ kept' = [c \in Channel |-> 0]
      BY <1>2, <3>1
    <3> QED BY <2>2, <2>3, <3>2
  <2> QED BY <2>1, <2>4, <2>5, <2>6 DEF SetUpEffect
<1>11. CASE CrashAndRestart
  <2>1. on' = on /\ off' = off /\ call' = [c \in Channel |-> Idle]
    BY <1>11 DEF CrashAndRestart, board
  <2>2. \A c \in Channel : duty'[c] = duty[c] /\ kept'[c] = kept[c] /\ asked'[c] = -1
    BY <1>1, <2>1 DEF AskedBy, Idle
  <2>3. duty' = duty /\ kept' = kept /\ asked' = [c \in Channel |-> -1]
    BY <1>2, <2>2
  <2> QED BY <2>3
<1>12. CASE UNCHANGED vars
  <2>1. on' = on /\ off' = off /\ call' = call
    BY <1>12 DEF vars, board, program
  <2>2. \A c \in Channel : duty'[c] = duty[c] /\ kept'[c] = kept[c] /\ asked'[c] = asked[c]
    BY <1>1, <2>1
  <2>3. Stay
    BY <1>2, <2>2
  <2> QED BY <2>3
<1> QED BY <1>9, <1>10, <1>11, <1>12 DEF Next, SetUp

\* Every behaviour of the driver is one of the promised board.
THEOREM DriverImplementsBoard == Spec => ImplementsBoard
<1>1. Inv /\ Inv' /\ [Next]_vars =>
        [Promise!Next]_<<[c \in Channel |-> Duty(c)], [c \in Channel |-> Ticks(off[c])],
                         [c \in Channel |-> IF call[c].pc = "idle" THEN -1
                                            ELSE Clamped(call[c].value)]>>
  BY PromisedStep
<1> QED BY <1>1, InitialPromise, BoardInvariant, PTL DEF Spec, ImplementsBoard, Promise!Spec
=============================================================================
