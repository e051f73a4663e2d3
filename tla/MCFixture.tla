----------------------------- MODULE MCFixture -----------------------------
(***************************************************************************)
(* Fixture for TLC: heat-up and replay of a few blocks.  The block sizes   *)
(* are one call, calls and transfers, more calls than slots, and more than *)
(* the gas limit takes.                                                    *)
(***************************************************************************)
EXTENDS FixtureStream

MCAccounts == {"sender", "miner"}
MCSystemContracts == {"0x1000"}
MCOtherAddresses == {"sender", "writer", "recipient"}

=============================================================================
