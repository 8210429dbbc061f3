---------------------------- MODULE GranteeLists ----------------------------
(***************************************************************************)
(* What a Bee node keeps for the sealing layer, and what SealClient does   *)
(* to it (packages/seal/src/client.ts).                                    *)
(*                                                                         *)
(* Nothing on Swarm changes in place. Each grantee write makes a version   *)
(* with a list reference and a history address of its own, and the bytes   *)
(* of an upload stay attached to the history they were uploaded under, as  *)
(* the comment on patchAccess (app/src/lib/server/access.ts:19-33) has it. *)
(* A version's number stands for both its addresses.                       *)
(***************************************************************************)
EXTENDS Naturals, Sequences

CONSTANTS Keys,   \* the grantees, by public key
          NoList  \* the list reference of a receipt sealed to no grantee

VARIABLES
    lists,   \* lists[v]: the grantees of version v
    sealed   \* sealed[o]: the history object o was uploaded under

Versions == DOMAIN lists
Objects == DOMAIN sealed

\* SealReceipt, reduced to what a later read or patch is made from.
SealReceipt == [swarmRef : Objects, history : Versions, listRef : Versions \cup {NoList}]

\* The download: right object, its own history, and a key on that history's list.
MayOpen(key, receipt) ==
    /\ sealed[receipt.swarmRef] = receipt.history
    /\ key \in lists[receipt.history]

\* PATCH /grantee/{ref}: the list the reference names, with both changes.
patched(listRef, add, revoke) == (lists[listRef] \cup add) \ revoke

\* grantee.create: a first version for the requested keys.
createList(keys) == lists' = Append(lists, keys)

patchGrantees(receipt, add, revoke) ==
    /\ receipt.listRef # NoList
    /\ lists' = Append(lists, patched(receipt.listRef, add, revoke))

newest(s) == Len(s)
upload(history) == sealed' = Append(sealed, history)

\* The content written again under a history the caller gives.
reseal(history) == upload(history)

\* The list a reference names, for its publisher.
listGrantees(listRef) == lists[listRef]

ListsTypeOK ==
    /\ lists \in Seq(SUBSET Keys)
    /\ sealed \in Seq(Versions)
=============================================================================
