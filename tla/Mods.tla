-------------------------------- MODULE Mods --------------------------------
(***************************************************************************)
(* Combinations of mods, and the game modes they make: what the server     *)
(* keeps of a combination that a client or a user names, in a mode of the  *)
(* game (0 osu!, 1 taiko, 2 catch, 3 mania).                               *)
(*                                                                         *)
(* A combination is a set of the mods' abbreviations.  Two keymods are let *)
(* alone together by the filter on the Python that the README asks for:    *)
(* KEY_MODS cannot be iterated over there, and the filter raises.  Mods    *)
(* that nothing conflicts with are left out.                               *)
(***************************************************************************)
EXTENDS Naturals

CONSTANT KeyMod    \* keymods: "4K", "5K" ...

ModeOnly == {"AP", "SO", "TP"}                     \* OSU_SPECIFIC_MODS
ManiaOnly == {"MR", "RN", "FI"} \cup KeyMod        \* MANIA_SPECIFIC_MODS
Mod == {"NF", "EZ", "HD", "HR", "SD", "DT", "RX", "HT", "NC", "SO", "AP", "PF", "FI"} \cup KeyMod

VARIABLES
    asked,         \* the combination and the mode somebody asked for
    filtered,      \* what filter_invalid_combos leaves, if it does not raise
    played         \* the mods and the mode that CHANGE_ACTION leaves

modvars == <<asked, filtered, played>>

\* mods without those in `gone`, if `condition` holds of them.
Without(mods, condition, gone) == IF condition THEN mods \ gone ELSE mods
Has(mods, some) == mods \cap some # {}

-----------------------------------------------------------------------------
(* Mods.filter_invalid_combos.                                              *)

\* HT is kept if DT and NC were both there.
Speed(m) == IF {"DT", "NC"} \subseteq m THEN m \ {"DT"}
            ELSE Without(m, Has(m, {"DT", "NC"}), {"HT"})
Difficulty(m) == Without(m, "EZ" \in m, {"HR"})

\* Mutant: PF and SD are looked at before NF is removed for RX and AP.
Failing_NoFailFirst(m) ==
    LET relaxed == Without(m, Has(m, {"RX", "AP"}), {"NF"})
        strict  == Without(relaxed, Has(relaxed, {"NF"}), {"SD", "PF"})
    IN  Without(strict, "PF" \in strict, {"SD"})
Failing(m) ==
    LET strict  == Without(m, Has(m, {"NF", "RX", "AP"}), {"SD", "PF"})
        relaxed == Without(strict, Has(strict, {"RX", "AP"}), {"NF"})
    IN  Without(relaxed, "PF" \in relaxed, {"SD"})

OfMode(m, mode_vn) == (IF mode_vn = 0 THEN m ELSE m \ ModeOnly) \ (IF mode_vn = 3 THEN {} ELSE ManiaOnly)
InMode(m, mode_vn) ==
    CASE mode_vn = 0 -> Without(m, Has(m, {"SO", "RX"}), {"AP"})
      [] mode_vn = 3 -> Without(m \ {"RX"}, "HD" \in m, {"FI"})
      [] OTHER -> m

filter_invalid_combos(m, mode_vn) == InMode(OfMode(Failing(Difficulty(Speed(m))), mode_vn), mode_vn)
Raises(m) == \E a, b \in m \cap KeyMod : a # b

-----------------------------------------------------------------------------
(* CHANGE_ACTION and GameMode.                                              *)

\* There is no relax in mania, and autopilot in osu! alone.
ChangeAction(m, mode_vn) ==
    IF "RX" \in m THEN IF mode_vn = 3 THEN [mods |-> m \ {"RX"}, mode |-> 3] ELSE [mods |-> m, mode |-> mode_vn + 4]
    ELSE IF "AP" \in m THEN IF mode_vn = 0 THEN [mods |-> m, mode |-> 8] ELSE [mods |-> m \ {"AP"}, mode |-> mode_vn]
    ELSE [mods |-> m, mode |-> mode_vn]

from_params(mode_vn, m) == mode_vn + (IF "AP" \in m THEN 8 ELSE IF "RX" \in m THEN 4 ELSE 0)
as_vanilla(mode) == IF mode \in 8..11 THEN mode - 8 ELSE IF mode \in 4..7 THEN mode - 4 ELSE mode

Asks ==
    /\ filtered.now = "asked"
    /\ LET kept == filter_invalid_combos(asked.mods, asked.mode)
       IN  filtered' = [now |-> IF Raises(kept) THEN "raised" ELSE "returned", mods |-> kept]
    /\ played' = ChangeAction(asked.mods, asked.mode)
    /\ UNCHANGED asked

\* What was left is asked for in its turn.
AsksAgain ==
    /\ filtered.now # "asked"
    /\ asked' = [asked EXCEPT !.mods = filtered.mods]
    /\ filtered' = [now |-> "asked", mods |-> filtered.mods] /\ played' = asked'

ModsInit ==
    /\ asked \in [mods : SUBSET Mod, mode : 0..3]
    /\ filtered = [now |-> "asked", mods |-> asked.mods]
    /\ played = asked

ModsNext == Asks \/ AsksAgain

ModsSpec == ModsInit /\ [][ModsNext]_modvars

-----------------------------------------------------------------------------
(* Properties.                                                              *)

\* What the comments of filter_invalid_combos call invalid, in each mode.
Conflicts(mode_vn) ==
    {{"DT", "NC"}, {"DT", "HT"}, {"NC", "HT"}, {"EZ", "HR"}, {"RX", "NF"}, {"AP", "NF"}, {"PF", "SD"}}
    \cup {{a, b} : a \in {"NF", "RX", "AP"}, b \in {"SD", "PF"}}
    \cup (IF mode_vn = 0 THEN {{"SO", "AP"}, {"RX", "AP"}} ELSE {{mod} : mod \in ModeOnly})
    \cup (IF mode_vn = 3 THEN {{"RX"}, {"HD", "FI"}} ELSE {{mod} : mod \in ManiaOnly})
    \cup {c \in SUBSET KeyMod : \E a, b \in c : a # b /\ c = {a, b}}
Valid(m, mode_vn) == \A c \in Conflicts(mode_vn) : ~(c \subseteq m)

\* What the filter leaves is valid, unless DT, NC and HT were all asked for, of
\* which NC and HT are left (mods.py:69-73); and what is valid already it leaves
\* alone.  The mods that a session shows fit its mode, and the mode is one of
\* those that are used (mods.py:65-126, gamemodes.py:50-66, cho.py:187-196).
ModsAreValid == filtered.now # "asked" =>
    /\ filtered.now = "returned" /\ ~({"DT", "NC", "HT"} \subseteq asked.mods) => Valid(filtered.mods, asked.mode)
    /\ Valid(asked.mods, asked.mode) => filtered = [now |-> "returned", mods |-> asked.mods]
    /\ played.mode \in (0..6) \cup {8}
    /\ as_vanilla(played.mode) = asked.mode
    /\ from_params(asked.mode, played.mods) = played.mode \/ {"RX", "AP"} \subseteq asked.mods

=============================================================================
