------------------------------ MODULE Security ------------------------------
(***************************************************************************)
(* The master password (crates/afos-core/src/security.rs) and the callers  *)
(* that check or change it: System::initialize, change_password and        *)
(* authorize (crates/afos-core/src/system.rs), over the bare-metal clock,  *)
(* next to applications whose file calls reach the verifier.               *)
(*                                                                         *)
(* verify reads the clock, then derives a key for a time nobody bounds,    *)
(* then decides, so it is two actions with the clock running between them. *)
(* A call that is refused before it changes anything (an answer of "no", a *)
(* console error, RateLimited, a verifier that does not parse, no verifier *)
(* for authorize to check) is a stuttering step.                           *)
(***************************************************************************)
EXTENDS Integers

CONSTANTS
    Passwords,          \* the passwords that are typed
    NoPassword,         \* the verifier's file does not exist; also the empty password
    Corrupt,            \* the file exists and does not parse
    Second,             \* milliseconds: 1000 in the code
    MaxExponent,        \* the cap of the exponent: 5 in the code
    U32Max, U64Max,     \* the widths of failed_attempts and of the clock
    Frequency,          \* cycles of the counter in a second
    Horizon,            \* bound: no check begins later than this cycle
    CounterBound,       \* bound: the counter stops here
    WrongBound          \* bound: wrong passwords between two resets

\* 1_000 << 5 is the largest delay of the code, and the clock stays so far below its
\* width that adding a delay does not saturate (any frequency above 1 does).
ASSUME SecurityAssumption ==
    /\ Second \in Nat \ {0} /\ MaxExponent \in 0 .. 5
    /\ U32Max \in Nat /\ U32Max >= 3 + MaxExponent
    /\ U64Max \in Nat /\ Frequency \in Nat \ {0}
    /\ U64Max \div Frequency + 32 * Second <= U64Max
    /\ NoPassword \notin Passwords /\ Corrupt \notin Passwords

VARIABLES
    counter,    \* arch::counter() - started
    file,       \* /user/config/security
    unsaved,    \* verifiers of failed writes, which a restart may find on the medium
    marker,     \* /user/config/initialized exists
    failed,     \* failed_attempts
    blocked,    \* blocked_until
    pc,         \* where the running call is
    call,       \* which call it is
    typed,      \* the password given to verify
    now,        \* verify's local
    wrong,      \* wrong passwords compared since the last reset
    last,       \* when the check of the last of them began
    elapsed     \* last minus the time when the check of the first began

limiter == <<failed, blocked>>
ghosts == <<wrong, last, elapsed>>
stored == <<file, unsaved, marker>>
vars == <<counter, stored, limiter, pc, call, typed, now, ghosts>>

-----------------------------------------------------------------------------

Smaller(a, b) == IF a <= b THEN a ELSE b
Plus(a, b, max) == Smaller(a + b, max)     \* saturating_add

\* monotonic_millis: saturating_mul(1_000), then the division.
Millis(cycles) == Smaller(cycles * Second, U64Max) \div Frequency

\* 1 << exponent.
PowerOfTwo(exponent) ==
    CASE exponent = 0 -> 1 [] exponent = 1 -> 2 [] exponent = 2 -> 4
      [] exponent = 3 -> 8 [] exponent = 4 -> 16 [] exponent = 5 -> 32

\* Mutation: past the cap the shift is taken to overflow, and the delay is the largest u64.
Delay_Overflows(attempts) ==
    IF attempts - 3 > MaxExponent THEN U64Max ELSE Second * PowerOfTwo(attempts - 3)

Delay(attempts) == Second * PowerOfTwo(Smaller(attempts - 3, MaxExponent))

-----------------------------------------------------------------------------

Elapse ==
    /\ counter < CounterBound
    /\ counter' = counter + 1
    /\ UNCHANGED <<stored, limiter, pc, call, typed, now, ghosts>>

\* A call returns, and its locals are gone.  An error of the first-run setup ends the
\* program.
Returns(result) ==
    /\ pc' = IF call = "setup" /\ result = "error" THEN "down" ELSE "idle"
    /\ call' = "none" /\ typed' = NoPassword /\ now' = 0

\* Mutation: blocked_until is not looked at.
BeginVerify_Unlimited(c, password) ==
    /\ pc = "idle" /\ counter <= Horizon
    /\ file \notin {NoPassword, Corrupt}
    /\ pc' = "derive" /\ now' = Millis(counter)
    /\ call' = c /\ typed' = password
    /\ UNCHANGED <<counter, stored, limiter, ghosts>>

\* change_password and authorize (after the answer "yes") find a verifier, read a
\* password and call verify, up to the derivation.
BeginVerify(c, password) ==
    /\ pc = "idle" /\ counter <= Horizon
    /\ file # NoPassword
    /\ Millis(counter) >= blocked
    /\ file # Corrupt
    /\ pc' = "derive" /\ now' = Millis(counter)
    /\ call' = c /\ typed' = password
    /\ UNCHANGED <<counter, stored, limiter, ghosts>>

Reset ==
    /\ failed' = 0 /\ blocked' = 0
    /\ wrong' = 0 /\ last' = 0 /\ elapsed' = 0

\* verify returns Ok: authorize grants, change_password goes on to the new password.
Matches ==
    /\ pc = "derive" /\ typed = file
    /\ Reset
    /\ IF call = "change" THEN pc' = "new" /\ UNCHANGED <<call, typed, now>> ELSE Returns("ok")
    /\ UNCHANGED <<counter, stored>>

\* Mutation: the delay begins one failure late.
CountFailure_Late ==
    /\ failed' = Plus(failed, 1, U32Max)
    /\ blocked' = IF failed' > 3 THEN Plus(now, Delay(failed'), U64Max) ELSE blocked

CountFailure ==
    /\ failed' = Plus(failed, 1, U32Max)
    /\ blocked' = IF failed' >= 3 THEN Plus(now, Delay(failed'), U64Max) ELSE blocked

\* Mutation: the result of verify is dropped.
Mismatches_Ignored ==
    /\ pc = "derive" /\ typed # file /\ wrong < WrongBound
    /\ CountFailure
    /\ wrong' = wrong + 1 /\ last' = now
    /\ elapsed' = IF wrong = 0 THEN 0 ELSE elapsed + (now - last)
    /\ IF call = "change" THEN pc' = "new" /\ UNCHANGED <<call, typed, now>>
       ELSE Returns("error")
    /\ UNCHANGED <<counter, stored>>

Mismatches ==
    /\ pc = "derive" /\ typed # file /\ wrong < WrongBound
    /\ CountFailure
    /\ wrong' = wrong + 1 /\ last' = now
    /\ elapsed' = IF wrong = 0 THEN 0 ELSE elapsed + (now - last)
    /\ Returns("error")
    /\ UNCHANGED <<counter, stored>>

\* The derivation fails: nothing is counted.
DerivationFails ==
    /\ pc = "derive"
    /\ Returns("error")
    /\ UNCHANGED <<counter, stored, limiter, ghosts>>

\* change_password without a verifier.
BeginChange ==
    /\ pc = "idle" /\ file = NoPassword
    /\ pc' = "new" /\ call' = "change"
    /\ UNCHANGED <<counter, stored, limiter, typed, now, ghosts>>

\* prompt_new_password and set_password, with NoPassword for an empty line.
SetPassword(password) ==
    /\ pc = "new"
    /\ file' = password /\ unsaved' = {}
    /\ Reset
    /\ IF call = "setup" THEN pc' = "mark" /\ UNCHANGED <<call, typed, now>> ELSE Returns("ok")
    /\ UNCHANGED <<counter, marker>>

\* The confirmation differs, no entropy, or the write or the removal fails.
SetPasswordFails(password) ==
    /\ pc = "new"
    /\ unsaved' \in {unsaved, unsaved \cup {password}}
    /\ Returns("error")
    /\ UNCHANGED <<counter, file, marker, limiter, ghosts>>

-----------------------------------------------------------------------------

\* System::initialize, from the test for the marker on.
Initialize ==
    /\ pc = "boot"
    /\ \/ marker /\ Returns("ok")
       \/ ~marker /\ pc' \in {"new", "mark"} /\ UNCHANGED <<call, typed, now>>
    /\ UNCHANGED <<counter, stored, limiter, ghosts>>

WriteMarker ==
    /\ pc = "mark"
    /\ \/ marker' = TRUE /\ unsaved' = {} /\ Returns("ok")
       \/ Returns("error") /\ UNCHANGED <<marker, unsaved>>
    /\ UNCHANGED <<counter, file, limiter, ghosts>>

\* A file call of an application, between the calls above: authorize keeps it from the
\* verifier and from what is below, but renaming a directory above takes the verifier and
\* the marker away or puts others there, and appdata_write asks nobody.
ApplicationChanges ==
    /\ pc = "idle"
    /\ file' \in Passwords \cup {NoPassword, Corrupt} /\ unsaved' = {}
    /\ marker' \in BOOLEAN
    /\ UNCHANGED <<counter, limiter, pc, call, typed, now, ghosts>>

\* The process or the machine stops and starts again: the limiter is in memory only.
Restart ==
    /\ pc' = "boot" /\ call' = "setup" /\ typed' = NoPassword /\ now' = 0
    /\ counter' = 0
    /\ file' \in {file} \cup unsaved /\ unsaved' = {}
    /\ Reset
    /\ UNCHANGED marker

Init ==
    /\ counter = 0
    /\ file \in Passwords \cup {NoPassword, Corrupt} /\ unsaved = {}
    /\ marker \in BOOLEAN
    /\ failed = 0 /\ blocked = 0
    /\ pc = "boot" /\ call = "setup" /\ typed = NoPassword /\ now = 0
    /\ wrong = 0 /\ last = 0 /\ elapsed = 0

Next ==
    \/ Elapse \/ Restart \/ Initialize \/ WriteMarker
    \/ \E c \in {"change", "authorize"}, p \in Passwords \cup {NoPassword} : BeginVerify(c, p)
    \/ Matches \/ Mismatches \/ DerivationFails
    \/ BeginChange \/ ApplicationChanges
    \/ \E p \in Passwords \cup {NoPassword} : SetPassword(p) \/ SetPasswordFails(p)

Spec == Init /\ [][Next]_vars

\* The counter runs whatever the program does.
FairSpec == Spec /\ WF_vars(Elapse)

-----------------------------------------------------------------------------
(***************************************************************************)
(* Properties.                                                             *)
(***************************************************************************)

\* The types of the variables; failed_attempts and blocked_until keep their widths.
TypeOK ==
    /\ counter \in Nat /\ now \in Nat /\ last \in Nat /\ elapsed \in Nat /\ wrong \in Nat
    /\ file \in Passwords \cup {NoPassword, Corrupt}
    /\ unsaved \subseteq Passwords \cup {NoPassword}
    /\ marker \in BOOLEAN
    /\ failed \in 0 .. U32Max /\ blocked \in 0 .. U64Max
    /\ pc \in {"boot", "idle", "derive", "new", "mark", "down"}
    /\ call \in {"none", "setup", "change", "authorize"}
    /\ typed \in Passwords \cup {NoPassword}

\* The sum of the delays that k wrong passwords in a row leave behind them, the last
\* one's excepted: one second, doubling up to the cap from the third on.
MinElapsed(k) ==
    LET n == k - 3
        cap == PowerOfTwo(MaxExponent)
    IN  IF n <= 0 THEN 0
        ELSE IF n <= MaxExponent THEN Second * (PowerOfTwo(n) - 1)
        ELSE Second * (cap - 1 + (n - MaxExponent) * cap)

\* However the checks, the derivations and the clock interleave, k wrong passwords are
\* compared in a row only over the sum of their delays, also when failed_attempts has
\* saturated (verify).
GuessBudget == elapsed >= MinElapsed(wrong)

\* The time that a refused caller is told to wait is never above the largest delay,
\* although the delay counts from the start of the check that failed (verify).
WaitCapped == blocked - Millis(counter) <= Second * PowerOfTwo(MaxExponent)

\* Whatever applications did to the file before, passwd replaces or removes a verifier that
\* exists only after the password that this very verifier takes was typed in the same call;
\* only the first-run setup, a restart that finds the verifier of an earlier write, and the
\* file calls of an application between two calls need none (change_password, set_password).
ChangeNeedsCurrent ==
    [][file' # file => \/ file = NoPassword \/ typed = file
                       \/ call = "setup" \/ pc' = "boot" \/ pc = "idle"]_vars

\* A lock-out ends (verify, monotonic_millis).
LockoutEnds == (Millis(counter) < blocked) ~> (Millis(counter) >= blocked)

\* What the steps maintain: the lock-out lasts the delay of the last failure from the
\* start of its check, a derivation runs only for a check that began after it, and a
\* change that has got as far as the new password knows the current one.
IInv ==
    /\ TypeOK
    /\ failed = Smaller(wrong, U32Max)
    /\ failed < 3 => blocked = 0
    /\ failed >= 3 => blocked = last + Delay(failed)
    /\ last <= Millis(counter)
    /\ pc = "derive" => now <= Millis(counter) /\ now >= blocked /\ now >= last
    /\ pc = "boot" => call = "setup"
    /\ pc = "new" /\ call # "setup" /\ file # NoPassword => typed = file
    /\ elapsed >= MinElapsed(wrong)

=============================================================================
