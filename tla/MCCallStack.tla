---------------------------- MODULE MCCallStack ----------------------------
(* Processes in an address space of forty words: the pc of a program or    *)
(* null, the stack below [stack]'s end at 18, few words that look like     *)
(* return addresses, frames in order or anyhow.                            *)
EXTENDS CallStack

Spots == {10, 11, 13, 16}
MCCallers == (0..(Depth - 1)) \X Spots \X (Spots \cup {39})

MCProcesses ==
  [sp : {10}, pc : {0, 20}, lr : {22}, entry : BOOLEAN, call : BOOLEAN,
   high : {18}, returns : {{}, {11, 13}}, orderly : BOOLEAN]

(* Registers that a wild jump or a wild write leaves, at either end of the *)
(* address space.                                                          *)
MCWild ==
  [sp : {1, 10, 33, 38, 39}, pc : {0, 20, 38}, lr : {22, 39}, entry : BOOLEAN, call : BOOLEAN,
   high : {18}, returns : {{}}, orderly : {TRUE}]

MCAllProcesses == MCProcesses \cup MCWild

AsBuilt  == {[table |-> TRUE, guess |-> TRUE]}
MCBuilds == AsBuilt \cup {[table |-> TRUE, guess |-> FALSE]}
=============================================================================
