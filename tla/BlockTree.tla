------------------------------ MODULE BlockTree ------------------------------
(***************************************************************************)
(* The blocks the RPC endpoints of one chain may ever report, as the code  *)
(* sees them: pipeline.BlockRef.  A block is identified with its hash;     *)
(* Num and Parent are the other two fields the code reads.  The timestamp  *)
(* and the chain id are left out: one instance of the specification is one *)
(* chain, and no decision of the ingest code reads the time of a block.    *)
(*                                                                         *)
(* Every table the code keys by block number (Reconciler.known, the        *)
(* "blocks" table, the slices a reconciliation returns) is a function from *)
(* heights to a block or NoBlock.  The slices are in increasing order with *)
(* at most one block per number, so the function determines them.          *)
(***************************************************************************)
EXTENDS Integers

CONSTANTS
    Block,      \* every block any endpoint may report
    NoBlock,    \* no row for that number
    Num,        \* BlockRef.Number
    Parent,     \* BlockRef.ParentHash
    MaxHeight   \* the largest block number (uint64 in the code)

Heights == 0..MaxHeight

(***************************************************************************)
(* What a blockchain guarantees: a hash commits to the parent, whose       *)
(* number is one less, and a chain has a single genesis block.             *)
(***************************************************************************)
ASSUME BlockTreeAssumption ==
    /\ MaxHeight \in Nat
    /\ NoBlock \notin Block
    /\ Num \in [Block -> Heights]
    /\ Parent \in [Block -> Block \cup {NoBlock}]
    /\ \A b \in Block : Num[b] = 0 => Parent[b] = NoBlock
    /\ \A b \in Block : Num[b] > 0 => Parent[b] \in Block
                                      /\ Num[Parent[b]] = Num[b] - 1
    /\ \A b, c \in Block : Num[b] = 0 /\ Num[c] = 0 => b = c

Rows == [Heights -> Block \cup {NoBlock}]

EmptyRows == [n \in Heights |-> NoBlock]

\* The blocks a table holds.
BlocksOf(rows) == {b \in Block : \E n \in Heights : rows[n] = b}

\* The table "rows" after the rows of "new" were written into it.
Overlay(rows, new) ==
    [n \in Heights |-> IF new[n] # NoBlock THEN new[n] ELSE rows[n]]

BlocksAt(n) == {b \in Block : Num[b] = n}

------------------------------------------------------------------------------
(* A table that is a hash chain ending at height "top".                    *)

\* Every block is filed under its own number.
FiledByNumber(rows) ==
    \A n \in Heights : rows[n] # NoBlock => Num[rows[n]] = n

\* Height top is filled and nothing is above it.
EndsAt(rows, top) ==
    /\ rows[top] # NoBlock
    /\ \A n \in Heights : n > top => rows[n] = NoBlock

\* From the lowest filled height up to the top there is no gap.
NoGaps(rows, top) ==
    \A m, n \in Heights : m < n /\ n <= top /\ rows[m] # NoBlock
                          => rows[n] # NoBlock

\* A block in the table names the block one below it as its parent.
Linked(rows) ==
    \A n \in Heights : /\ n > 0
                       /\ rows[n] # NoBlock
                       /\ rows[n - 1] # NoBlock
                       => Parent[rows[n]] = rows[n - 1]

IsHashChain(rows, top) ==
    /\ FiledByNumber(rows)
    /\ EndsAt(rows, top)
    /\ NoGaps(rows, top)
    /\ Linked(rows)
==============================================================================
