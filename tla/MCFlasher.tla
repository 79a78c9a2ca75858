------------------------------ MODULE MCFlasher ------------------------------
(***************************************************************************)
(* Configurations and image sizes for Flasher, in units of a quarter block. *)
(***************************************************************************)
EXTENDS Flasher

Memory(slots, flash, preset) == [slots |-> slots, flash |-> flash, preset |-> preset]

\* Even shares, shares with memory left over, presets before shares, a flash that
\* is no whole number of blocks, presets in every slot, and too little memory for
\* the factory image, for a preset, or for a block each; too many slots and too
\* many presets, which build.rs refuses.
MCConfigs == {Memory(1, 32, <<>>), Memory(2, 32, <<>>), Memory(3, 34, <<3>>),
              Memory(3, 64, <<4, 5>>), Memory(2, 32, <<1, 1>>), Memory(3, 24, <<>>),
              Memory(2, 18, <<9>>), Memory(1, 10, <<>>), Memory(4, 64, <<>>), Memory(1, 32, <<1, 1>>)}

\* One slot or two, for the run that looks for a stale table.
MCTwo == {Memory(1, 32, <<>>), Memory(2, 32, <<>>)}
=============================================================================
