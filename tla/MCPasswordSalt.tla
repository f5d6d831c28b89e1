--------------------------- MODULE MCPasswordSalt ---------------------------
(***************************************************************************)
(* Instance of PasswordSalt: a machine with an entropy device behind one   *)
(* that does not start, one with RDRAND only, and an AArch64 one.          *)
(***************************************************************************)
EXTENDS PasswordSalt

Machine(arch, bus, rdrand) == [arch |-> arch, bus |-> bus, rdrand |-> rdrand]
Entropy(bar, starts) ==
    [kind |-> "entropy", bar |-> bar, starts |-> starts, readonly |-> FALSE]
MCHardware ==
    {Machine("x86_64", <<Entropy("io", FALSE), Entropy("io", TRUE)>>, FALSE),
     Machine("x86_64", <<Entropy("high", TRUE)>>, TRUE),
     Machine("aarch64", <<Entropy("io", TRUE)>>, FALSE)}
=============================================================================
