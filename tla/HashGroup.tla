----------------------------- MODULE HashGroup -----------------------------
(***************************************************************************)
(* The hash group under construction while a partition region is decoded:  *)
(* decompress_partition (decoder.rs) and process_part_group (push.rs) keep *)
(* the same buffers and work on them in the same order.                    *)
(***************************************************************************)
EXTENDS RvzFormat

PartStart == [on |-> TRUE, i |-> 0, blockIndex |-> 0, groupStart |-> 0,
              blocks |-> NoTree, ex |-> [s \in Slots |-> {}]]
NoPart == [PartStart EXCEPT !.on = FALSE]
PartStates == [on : BOOLEAN, i : Nat, blockIndex : Nat, groupStart : Nat,
               blocks : [Slots -> Sources], ex : [Slots -> SUBSET (Nat \X Nat)]]

\* A block of the payload named g, decoded by the table entry of a group.
Payload(entry, g, b) == IF entry.zero THEN Zeros ELSE <<g, b>>

\* The state with the n blocks of a chunk put into their slots, and the
\* exceptions of the chunk with them.
Filled(ps, entry, g, n) ==
  LET slot(b) == (ps.blockIndex + b) % GroupBlocks
      \* a chunk longer than a group overwrites its own slots: the last wins
      last(s) == {b \in 0 .. n - 1 : slot(b) = s /\ b + GroupBlocks >= n}
      marked(s) == {b \in 0 .. n - 1 : slot(b) = s /\ b \in entry.ex}
  IN  [on         |-> ps.on,
       i          |-> ps.i + 1,
       blockIndex |-> ps.blockIndex + n,
       groupStart |-> ps.groupStart,
       blocks     |-> [s \in Slots |->
          IF last(s) = {} THEN ps.blocks[s]
                          ELSE Payload(entry, g, CHOOSE b \in last(s) : TRUE)],
       ex         |-> [s \in Slots |-> ps.ex[s] \cup {<<g, b>> : b \in marked(s)}]]

\* Seeded bug: the exceptions of a finished hash group are kept.
ClearedKeepingEx(ps) == [ps EXCEPT !.blocks = NoTree, !.groupStart = ps.blockIndex]

\* The buffers emptied once a hash group is complete.
Cleared(ps) == [ps EXCEPT !.blocks = NoTree, !.ex = [s \in Slots |-> {}],
                          !.groupStart = ps.blockIndex]

GroupComplete(ps, e) == ps.blockIndex % GroupBlocks = 0 \/ ps.i = e.ng

\* Seeded bug: the length of a group counted from the start of the region.
GroupLengthOfRegion(ps) == Lesser(GroupBlocks, ps.blockIndex)
GroupLength(ps) == Lesser(GroupBlocks, ps.blockIndex - ps.groupStart)

\* finalize_group: hash tree over all slots, exceptions, then encryption
\* unless delegated; it fails with MissingGroup on an unfilled slot.
Finalizable(ps) == \A s \in 0 .. GroupLength(ps) - 1 : ps.blocks[s] # Empty

OutputFrom(ps, e, key, first) ==
  [offset |-> e.fs * Block + first * Block,
   len |-> GroupLength(ps) * Block,
   key |-> key,
   blocks |-> [b \in 1 .. GroupLength(ps) |->
                 [src |-> ps.blocks[b - 1], ex |-> ps.ex[b - 1]]],
   tree |-> ps.blocks]

\* Seeded bug: every hash group goes where the first one went.
GroupOutputAtBase(ps, e, key) == OutputFrom(ps, e, key, 0)
GroupOutput(ps, e, key) == OutputFrom(ps, e, key, ps.groupStart)
=============================================================================
