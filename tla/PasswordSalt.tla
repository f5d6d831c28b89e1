---------------------------- MODULE PasswordSalt ----------------------------
(***************************************************************************)
(* The master password on bare metal: Security over the entropy sources of *)
(* Devices.  set_password fills a salt before it derives and writes the    *)
(* verifier, and goes no further when that fails.  A step is a step of     *)
(* Security with what it does to the salt.                                 *)
(***************************************************************************)
EXTENDS Security, Devices

CONSTANTS
    Hardware    \* machines: records of arch, bus and rdrand

VARIABLES
    hardware,   \* the machine that runs
    salts       \* random bytes in the salt of each verifier of set_password on the medium

svars == <<vars, hardware, salts>>

Salts == FillRandom(Discover(hardware.arch, hardware.bus), hardware.rdrand)

\* set_password: an empty password only removes the verifier.
SetSalted(password) ==
    /\ SetPassword(password)
    /\ \/ password = NoPassword /\ salts' = {}
       \/ \E s \in Salts : password # NoPassword /\ s.ok /\ salts' = {s.random}
    /\ UNCHANGED hardware

\* It fails before the verifier is written, or in writing or removing it.
SetSaltedFails(password) ==
    /\ SetPasswordFails(password)
    /\ \/ unsaved' = unsaved /\ UNCHANGED salts
       \/ password = NoPassword /\ UNCHANGED salts
       \/ \E s \in Salts : password # NoPassword /\ s.ok /\ salts' = salts \cup {s.random}
    /\ UNCHANGED hardware

SaltedInit ==
    /\ Init
    /\ hardware \in Hardware
    /\ salts = IF file \in Passwords THEN {OutputLength} ELSE {}

SaltedNext ==
    \/ /\ \/ Elapse \/ Initialize \/ WriteMarker
          \/ \E c \in {"change", "authorize"}, p \in Passwords \cup {NoPassword} :
                 BeginVerify(c, p)
          \/ Matches \/ Mismatches \/ DerivationFails
          \/ BeginChange \/ ApplicationChanges
       /\ UNCHANGED <<hardware, salts>>
    \/ \E p \in Passwords \cup {NoPassword} : SetSalted(p) \/ SetSaltedFails(p)
    \/ Restart /\ hardware' \in Hardware /\ UNCHANGED salts

SaltedSpec == SaltedInit /\ [][SaltedNext]_svars /\ WF_svars(Elapse /\ UNCHANGED <<hardware, salts>>)

-----------------------------------------------------------------------------

\* Every verifier of set_password on the medium, also one whose write failed, has a salt all
\* of whose bytes came from a random source: "Entropy failures are reported instead of replaced
\* with predictable bytes" (docs/PORTING.md; set_password, fill_random).
SaltsAreRandom == salts \subseteq {OutputLength}
=============================================================================
