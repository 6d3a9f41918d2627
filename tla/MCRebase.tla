---- MODULE MCRebase ----
(* Cartridges of three bytes that grow to four, every list of at most two  *)
(* ranges, every list of at most two patches; and every mismatch of the    *)
(* identities one or several at a time.                                    *)
EXTENDS Rebase

Bytes == {0, 1}
Old == <<0, 1, 0>>
SourceCart == [mapper |-> 1, geometry |-> "plain", variant |-> 0, prg |-> Old, chr |-> 0, ramSize |-> 2]
TargetCart(prg) == [SourceCart EXCEPT !.prg = prg, !.variant = IF Len(prg) > 3 THEN 1 ELSE 0]
SnapshotOf(cart) ==
  [rom |-> cart, mapper |-> cart.mapper, cpu |-> [cell \in 0..2 |-> 0], frame |-> 7,
   private |-> [variant |-> cart.variant, ram |-> [cell \in 0..(cart.ramSize - 1) |-> 0]]]
ContractOf(source, target, changes, append, prgRam, cpuRam) ==
  [file |-> "snapshot", sourceRom |-> source, targetRom |-> target, sourceMapper |-> source.mapper,
   targetMapper |-> target.mapper, chr |-> source.chr, changes |-> changes, append |-> append,
   prgRam |-> prgRam, cpuRam |-> cpuRam]
RequestOf(source, target, contract, prgPatches, cpuPatches) ==
  [source |-> source, target |-> target, snapshot |-> SnapshotOf(source), file |-> "snapshot",
   contract |-> contract, prgPatches |-> prgPatches, cpuPatches |-> cpuPatches]

UpTo2(S) == {<<>>} \union {<<a>> : a \in S} \union {<<a, b>> : a, b \in S}
\* The bytes of a range, as far as there are any.
Cut(bytes, from, n) == SubSeq(bytes, from + 1, IF from + n > Len(bytes) THEN Len(bytes) ELSE from + n)
Ranges(prg) ==
  {[offset |-> o, length |-> n, source |-> Cut(Old, o, n), target |-> Cut(prg, o, n)] : o \in 0..3, n \in 0..2}
   \union {[offset |-> 0, length |-> 1, source |-> <<>>, target |-> SubSeq(prg, 1, 1)],
           [offset |-> 1, length |-> 1, source |-> SubSeq(Old, 2, 2), target |-> <<>>]}
Appends(prg) ==
  {NoAppend} \union {[offset |-> o, length |-> 4 - o, target |-> Cut(prg, o, 4 - o)] : o \in {2, 3}}
           \union {[offset |-> 3, length |-> 1, target |-> <<>>]}
NewPrgs == {Old, <<0, 0, 0>>, <<1, 0, 0>>, <<1, 0, 1, 0>>, <<0, 1, 1, 1>>, <<0, 1, 0, 1>>}
RomRequests(prg) ==
  {RequestOf(SourceCart, TargetCart(prg), ContractOf(SourceCart, TargetCart(prg), changes, append, <<>>, <<>>), <<>>, <<>>) :
     changes \in UpTo2(Ranges(prg)), append \in Appends(prg)}

\* Patches with what the contract says of them: the same, or another length or digest.
Pieces(addresses) ==
  {[expected |-> [address |-> a, length |-> n, digest |-> [k \in 1..n |-> 1]],
    supplied |-> [address |-> a, bytes |-> [k \in 1..n |-> 1]]] : a \in addresses, n \in 0..2}
   \union {[expected |-> [address |-> a, length |-> 1, digest |-> <<0>>],
            supplied |-> [address |-> b, bytes |-> bytes]] : a, b \in {2, 3}, bytes \in {<<0>>, <<1>>, <<0, 1>>}}
Both(pieces) ==
  {[expected |-> [i \in DOMAIN p |-> p[i].expected], supplied |-> [i \in DOMAIN p |-> p[i].supplied]] : p \in UpTo2(pieces)}
PrgPatchRequests(b) ==
  {RequestOf(SourceCart, SourceCart, ContractOf(SourceCart, SourceCart, <<>>, NoAppend, b.expected, <<>>), b.supplied, <<>>)}
CpuPatchRequests(b) ==
  {RequestOf(SourceCart, SourceCart, ContractOf(SourceCart, SourceCart, <<>>, NoAppend, <<>>, b.expected), <<>>, b.supplied)}

\* Another target of the same PRG-ROM, and a contract or a snapshot of others.
IdentityRequests(file) ==
  {[RequestOf(SourceCart, target, ContractOf(source, other, <<>>, NoAppend, <<>>, <<>>), <<>>, <<>>)
      EXCEPT !.snapshot = SnapshotOf(played), !.file = file] :
     target, source, other, played \in
       {SourceCart, [SourceCart EXCEPT !.mapper = 4], [SourceCart EXCEPT !.chr = 1], [SourceCart EXCEPT !.ramSize = 1],
        [SourceCart EXCEPT !.geometry = "fds"], [SourceCart EXCEPT !.variant = 1]}}
MCGroups ==
  {[kind |-> "rom", of |-> prg] : prg \in NewPrgs} \union {[kind |-> "identity", of |-> file] : file \in {"snapshot", "edited"}}
  \union {[kind |-> "prg", of |-> b] : b \in Both(Pieces(1..5))} \union {[kind |-> "cpu", of |-> b] : b \in Both(Pieces(0..3))}
MCRequests(group) ==
  CASE group.kind = "rom" -> RomRequests(group.of)
    [] group.kind = "identity" -> IdentityRequests(group.of)
    [] group.kind = "prg" -> PrgPatchRequests(group.of)
    [] group.kind = "cpu" -> CpuPatchRequests(group.of)
====
