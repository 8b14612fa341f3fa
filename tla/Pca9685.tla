------------------------------ MODULE Pca9685 ------------------------------
(***************************************************************************)
(* The driver of the PWM board, one action per I2C transaction, with one   *)
(* thread per channel, and the board's registers, which outlive the        *)
(* program.  A program sets the board up, switches all channels off, and   *)
(* then its threads call pwmWrite and digitalWrite; it may crash anywhere  *)
(* and be started again.                                                   *)
(***************************************************************************)
EXTENDS Integers

CONSTANTS
  Channel,
  Value,       \* what the threads pass to pwmWrite and digitalWrite
  BYTE,        \* values of a low register: 256
  NIBBLE,      \* values of the four tick bits of a high register: 16
  Presc,       \* prescalers
  Rate60,      \* the one that makes 60 Hertz
  MaxCrashes   \* bound on the crashes

\* A high register, with its full bit, fits into a low one.
ASSUME Pca9685Assumption ==
  /\ Value \subseteq Int
  /\ NIBBLE \in Nat \ {0} /\ BYTE \in Nat /\ 2 * NIBBLE <= BYTE
  /\ Rate60 \in Presc
  /\ MaxCrashes \in Nat

VARIABLES
  on, off,     \* the registers of each channel: [lo, hi, full]
  mode,        \* the bits of MODE1 that the driver uses
  prescale,
  ppc,         \* control point of the program outside its threads
  settings,    \* the driver's local of that name
  call,        \* each thread's call: control point, value, high register read
  crashes

board   == <<on, off, mode, prescale>>
program == <<ppc, settings, call, crashes>>
vars    == <<board, program>>

FULL == NIBBLE * BYTE

-----------------------------------------------------------------------------
(* The board. *)

Word(ticks, full) == [lo |-> ticks % BYTE, hi |-> ticks \div BYTE, full |-> full]
Ticks(r) == r.hi * BYTE + r.lo

\* Full-off has priority over full-on.
Duty(c) == IF off[c].full THEN 0
           ELSE IF on[c].full THEN FULL
           ELSE (Ticks(off[c]) - Ticks(on[c])) % FULL

\* What a write of two bytes leaves of register pair r: without auto-increment
\* the high byte goes to the low register too.
Write16(r, w) ==
  IF "ai" \in mode THEN w
  ELSE [r EXCEPT !.lo = w.hi + (IF w.full THEN NIBBLE ELSE 0)]

\* "restart" is set by the board when it is put to sleep and cleared by the
\* driver's writing it; until then the outputs stand still.
WriteMode1(bits) ==
  mode' = (bits \ {"restart"}) \union
          (IF \/ "sleep" \in bits /\ "sleep" \notin mode
              \/ "restart" \in mode /\ "restart" \notin bits
             THEN {"restart"} ELSE {})

Idle == [pc |-> "idle", value |-> 0, hi |-> 0]

\* The board is fresh, or another program has left it awake at its frequency.
Init ==
  /\ on = [c \in Channel |-> Word(0, FALSE)]
  /\ off = [c \in Channel |-> Word(0, TRUE)]
  /\ mode \in {{"sleep"}, {"ai"}}
  /\ prescale \in Presc
  /\ ppc = "setup" /\ settings = {}
  /\ call = [c \in Channel |-> Idle]
  /\ crashes = 0

-----------------------------------------------------------------------------
(* pca9685Setup, pca9685PWMFreq and pca9685PWMReset, called one after the   *)
(* other before any thread runs.                                            *)

At(here, next) ==
  ppc = here /\ ppc' = next /\ UNCHANGED <<call, crashes>>

\* Mutant: a pending restart is read as a setting.
ReadSettingsUnmasked(here, next) ==
  /\ At(here, next)
  /\ settings' = mode
  /\ UNCHANGED board

ReadSettings(here, next) ==
  /\ At(here, next)
  /\ settings' = mode \ {"restart"}
  /\ UNCHANGED board

SetMode1(here, next, bits) ==
  /\ At(here, next)
  /\ WriteMode1(bits)
  /\ UNCHANGED <<on, off, prescale, settings>>

\* Mutant: auto-increment is not switched on.
SetupKeepsMode ==
  \/ ReadSettings("setup", "autoInc")
  \/ SetMode1("autoInc", "freq", settings)

pca9685Setup ==
  \/ ReadSettings("setup", "autoInc")
  \/ SetMode1("autoInc", "freq", settings \union {"ai"})

\* The board takes a prescaler only while it sleeps.
SetPrescale ==
  /\ At("prescale", "wake")
  /\ prescale' = IF "sleep" \in mode THEN Rate60 ELSE prescale
  /\ UNCHANGED <<on, off, mode, settings>>

\* Mutant: the prescaler is set before the board sleeps.
FreqAwake ==
  \/ ReadSettings("freq", "prescale")
  \/ SetPrescale
  \/ SetMode1("wake", "restart", settings \ {"sleep"})
  \/ SetMode1("restart", "resetOn", (settings \ {"sleep"}) \union {"restart"})

pca9685PWMFreq ==
  \/ ReadSettings("freq", "sleep")
  \/ SetMode1("sleep", "prescale", settings \union {"sleep"})
  \/ SetPrescale
  \/ SetMode1("wake", "restart", settings \ {"sleep"})
  \/ SetMode1("restart", "resetOn", (settings \ {"sleep"}) \union {"restart"})

\* The registers of all channels at once.
pca9685PWMReset ==
  /\ UNCHANGED <<mode, prescale, settings>>
  /\ \/ /\ At("resetOn", "resetOff")
        /\ on' = [c \in Channel |-> Write16(on[c], Word(0, FALSE))]
        /\ UNCHANGED off
     \/ /\ At("resetOff", "run")
        /\ off' = [c \in Channel |-> Write16(off[c], Word(0, TRUE))]
        /\ UNCHANGED on

\* No device or no free pins: Pca::Pca does not look at the result, and the
\* program runs with calls that do nothing.
SetupFails ==
  /\ ppc = "setup" /\ ppc' = "blind"
  /\ UNCHANGED <<board, settings, call, crashes>>

-----------------------------------------------------------------------------
(* The calls of the threads. *)

Step(c, here, next) ==
  /\ call[c].pc = here
  /\ call' = [call EXCEPT ![c].pc = next]
  /\ UNCHANGED <<mode, prescale, ppc, settings, crashes>>

Start(c, v, pc) ==
  /\ ppc = "run" /\ call[c].pc = "idle"
  /\ call' = [call EXCEPT ![c] = [pc |-> pc, value |-> v, hi |-> 0]]
  /\ UNCHANGED <<board, ppc, settings, crashes>>

myPwmWrite(c, v) ==
  Start(c, v, IF v >= FULL THEN "readOn" ELSE IF v > 0 THEN "writeOn" ELSE "readOff")

myOnOffWrite(c, v) ==
  IF v # 0 THEN Start(c, FULL, "readOn") ELSE Start(c, 0, "readOff")

\* Mutant: the off ticks are written first.
PWMWriteOffFirst(c) ==
  \/ /\ Step(c, "writeOn", "writeOff")
     /\ off' = [off EXCEPT ![c] = Write16(@, Word(call[c].value, FALSE))]
     /\ UNCHANGED on
  \/ /\ Step(c, "writeOff", "idle")
     /\ on' = [on EXCEPT ![c] = Write16(@, Word(0, FALSE))]
     /\ UNCHANGED off

pca9685PWMWrite(c) ==
  \/ /\ Step(c, "writeOn", "writeOff")
     /\ on' = [on EXCEPT ![c] = Write16(@, Word(0, FALSE))]
     /\ UNCHANGED off
  \/ /\ Step(c, "writeOff", "idle")
     /\ off' = [off EXCEPT ![c] = Write16(@, Word(call[c].value, FALSE))]
     /\ UNCHANGED on

\* The high register is read, its full bit changed, and written back.
ReadHigh(c, here, next, hi) ==
  /\ call[c].pc = here
  /\ call' = [call EXCEPT ![c].pc = next, ![c].hi = hi]
  /\ UNCHANGED <<board, ppc, settings, crashes>>

\* Mutant: full-off stays as it was.
FullOnAlone(c) ==
  \/ ReadHigh(c, "readOn", "writeOnHigh", on[c].hi)
  \/ /\ Step(c, "writeOnHigh", "idle")
     /\ on' = [on EXCEPT ![c].hi = call[c].hi, ![c].full = TRUE]
     /\ UNCHANGED off

\* Ends in pca9685FullOff.
pca9685FullOn(c) ==
  \/ ReadHigh(c, "readOn", "writeOnHigh", on[c].hi)
  \/ /\ Step(c, "writeOnHigh", "readOff")
     /\ on' = [on EXCEPT ![c].hi = call[c].hi, ![c].full = TRUE]
     /\ UNCHANGED off

\* Clears the bit if it is called by pca9685FullOn, sets it for value 0.
pca9685FullOff(c) ==
  \/ ReadHigh(c, "readOff", "writeOffHigh", off[c].hi)
  \/ /\ Step(c, "writeOffHigh", "idle")
     /\ off' = [off EXCEPT ![c].hi = call[c].hi, ![c].full = call[c].value <= 0]
     /\ UNCHANGED on

\* The process ends, with what it was doing; the board stays.
CrashAndRestart ==
  /\ crashes < MaxCrashes /\ crashes' = crashes + 1
  /\ ppc' = "setup" /\ settings' = {}
  /\ call' = [c \in Channel |-> Idle]
  /\ UNCHANGED board

Call(c) ==
  \/ \E v \in Value : myPwmWrite(c, v) \/ myOnOffWrite(c, v)
  \/ pca9685PWMWrite(c) \/ pca9685FullOn(c) \/ pca9685FullOff(c)

Next ==
  \/ pca9685Setup \/ pca9685PWMFreq \/ pca9685PWMReset \/ SetupFails
  \/ \E c \in Channel : Call(c)
  \/ CrashAndRestart

Spec == Init /\ [][Next]_vars

-----------------------------------------------------------------------------
(* Properties. *)

\* The registers hold what fits into them, the locals what was read.
Register == [lo : 0 .. BYTE - 1, hi : 0 .. NIBBLE - 1, full : BOOLEAN]

TypeOK ==
  /\ on \in [Channel -> Register] /\ off \in [Channel -> Register]
  /\ mode \subseteq {"restart", "sleep", "ai"} /\ settings \subseteq {"sleep", "ai"}
  /\ prescale \in Presc
  /\ ppc \in {"setup", "autoInc", "freq", "sleep", "prescale", "wake", "restart",
              "resetOn", "resetOff", "run", "blind"}
  /\ call \in [Channel -> [pc : {"idle", "readOn", "writeOnHigh", "readOff",
                                 "writeOffHigh", "writeOn", "writeOff"},
                           value : Value \union {0, FULL}, hi : 0 .. NIBBLE - 1]]
  /\ crashes \in 0 .. MaxCrashes

\* A value as a duty.
Clamped(v) == IF v >= FULL THEN FULL ELSE IF v > 0 THEN v ELSE 0

\* Between its calls a channel shows what the last one asked for, and nothing
\* before the first one of the program, whatever was on the board, in whatever
\* step an earlier program crashed.
Settled ==
  ppc = "run" =>
    \A c \in Channel : call[c].pc = "idle" => Duty(c) = Clamped(call[c].value)

\* A program that has set the board up has it awake, running, at its own
\* frequency, and counting registers up, in whatever mode it found it.
BoardRuns ==
  ppc \in {"resetOn", "resetOff", "run"} => mode = {"ai"} /\ prescale = Rate60

\* No step of anybody raises a duty, be it for a moment, but to the value that
\* the channel's own call is about: the servos never see a pulse longer than
\* the old and the new one.
NoSurge ==
  [][\A c \in Channel :
       Duty(c)' > Duty(c) => call[c].pc # "idle" /\ Duty(c)' = Clamped(call[c].value)]_vars

\* The driver keeps the promise of the board.
Promise == INSTANCE PwmBoard WITH
  duty  <- [c \in Channel |-> Duty(c)],
  kept  <- [c \in Channel |-> Ticks(off[c])],
  asked <- [c \in Channel |-> IF call[c].pc = "idle" THEN -1
                              ELSE Clamped(call[c].value)]

ImplementsBoard == Promise!Spec
=============================================================================
