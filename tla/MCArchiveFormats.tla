--------------------------- MODULE MCArchiveFormats ---------------------------
(***************************************************************************)
(* Small instances of ArchiveFormats: every container of up to two entries *)
(* from a handful, or three, one of them too many.                         *)
(***************************************************************************)
EXTENDS Integers, Sequences

CONSTANT None

Words == {<<1>>, <<2, 1>>}

Plain == [kind |-> "image", path |-> 1, declared |-> 1, actual |-> 1, folder |-> 1, encrypted |-> FALSE,
          split |-> FALSE, state |-> "sound"]
Kinds ==
  {Plain,
   [Plain EXCEPT !.declared = 3, !.actual = 3],                      \* too large
   [Plain EXCEPT !.kind = "outside", !.path = 2],                    \* its name too long
   [Plain EXCEPT !.declared = 0, !.actual = 3],                      \* longer than it says
   [Plain EXCEPT !.encrypted = TRUE, !.actual = 2],
   [Plain EXCEPT !.kind = "file", !.encrypted = TRUE],
   [Plain EXCEPT !.encrypted = TRUE, !.state = "damaged"],
   [Plain EXCEPT !.declared = 0, !.actual = 0, !.folder = 0],        \* no stream
   [Plain EXCEPT !.state = "codec"], [Plain EXCEPT !.split = TRUE]}

Lists == UNION {[1..n -> Kinds] : n \in 0..2} \cup {<<Plain, Plain, Plain>>}

One == [disk |-> 0, cdDisk |-> 0, here |-> 1, total |-> 1]
SingleDisk == [found |-> TRUE, sentinel |-> FALSE, located |-> TRUE, inside |-> TRUE,
               locator |-> [disk |-> 0, disks |-> 1], record |-> One, record64 |-> One]
Tails == {[SingleDisk EXCEPT !.found = FALSE], [SingleDisk EXCEPT !.record.cdDisk = 1],
          [SingleDisk EXCEPT !.sentinel = TRUE, !.locator.disks = 2],
          [SingleDisk EXCEPT !.sentinel = TRUE, !.record64.here = 0],
          [SingleDisk EXCEPT !.sentinel = TRUE, !.record.disk = 1]}

Box == [format |-> "zip", input |-> "path", named |-> FALSE, volume |-> FALSE, broken |-> FALSE,
        header |-> FALSE, old |-> FALSE, odd |-> FALSE, secret |-> None, entries |-> <<>>,
        dicts |-> <<0>>, tail |-> SingleDisk]
Locked(l) == \E i \in DOMAIN l : l[i].encrypted
\* What a password is for there is; a file has the stream its size says.
Holding(l) == [Box EXCEPT !.entries = l, !.secret = IF Locked(l) THEN <<1>> ELSE None]

Zips == {Holding(l) : l \in Lists} \cup {[Holding(<<Plain>>) EXCEPT !.tail = t] : t \in Tails}
          \cup {[Holding(<<Plain>>) EXCEPT !.broken = TRUE], [Holding(<<Plain, Plain>>) EXCEPT !.input = "reader"]}

Rars ==
  {[Holding(l) EXCEPT !.format = "rar", !.old = o] : l \in Lists, o \in BOOLEAN}
    \cup {[Holding(<<Plain>>) EXCEPT !.format = "rar", !.header = TRUE, !.secret = s] : s \in Words}
    \cup {[Holding(<<Plain>>) EXCEPT !.format = "rar", ![f] = TRUE] : f \in {"named", "volume", "broken", "odd"}}
    \cup {[Holding(<<Plain>>) EXCEPT !.format = "rar", !.input = "reader"]}

\* The entries of a 7z lie in one folder, which is then encrypted as a whole,
\* or each in one of its own; none is split, longer than it says, or unknown
\* to be encrypted without a stream.
InSeven(l) == \A i \in DOMAIN l : ~l[i].split /\ l[i].actual <= l[i].declared + 1 /\ l[i].declared > 0 <=> l[i].folder # 0
Solid(l) == \A i, j \in DOMAIN l : l[i].encrypted = l[j].encrypted \/ l[i].folder = 0 \/ l[j].folder = 0
Spread(l) == [i \in DOMAIN l |-> IF l[i].folder = 0 THEN l[i] ELSE [l[i] EXCEPT !.folder = i]]
Sevens ==
  {[Holding(l) EXCEPT !.format = "7z", !.dicts = <<d>>] : l \in {k \in Lists : InSeven(k) /\ Solid(k)}, d \in {0, 1, 2, 3}}
    \cup {[Holding(Spread(l)) EXCEPT !.format = "7z", !.dicts = <<2, 1, 1>>] : l \in {k \in Lists : InSeven(k)}}
    \cup {[Holding(<<Plain>>) EXCEPT !.format = "7z", !.header = TRUE, !.secret = <<1>>],
          [Holding(<<Plain>>) EXCEPT !.format = "7z", !.named = TRUE]}

Shelf == Zips \cup Rars \cup Sevens
=============================================================================
