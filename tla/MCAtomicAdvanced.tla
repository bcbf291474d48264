-------------------------- MODULE MCAtomicAdvanced --------------------------
(***************************************************************************)
(* Small instances of AtomicAdvanced: words of one bit, so that every sum  *)
(* carries or wraps.  The cells 64 and 80 are the halves of an aligned     *)
(* pair; 48 and 64 would be a pair across two lines, which the alignment   *)
(* check turns away.                                                       *)
(***************************************************************************)
EXTENDS AtomicAdvanced

MCCells == {48, 64, 80}

Cell(lo, hi) == [lo |-> lo, hi |-> hi]

Call(kind, at, exp, new) ==
  [kind |-> kind, at |-> at, exp |-> exp, new |-> new]

One(kind, at, exp, new) ==
  Call(kind, at, [c \in {at} |-> exp], [c \in {at} |-> new])

Two(at, exp, new) ==
  Call("pair", at, [c \in {at, at + 16} |-> exp], [c \in {at, at + 16} |-> new])

FetchAdd == One("fetch_add", 64, Cell(0, 0), Cell(1, 0))
Exchange == One("exchange",  64, Cell(0, 0), Cell(0, 1))
Load     == One("load",      64, Cell(0, 0), Cell(0, 0))
Store    == One("store",     64, Cell(0, 0), Cell(1, 1))
Cas      == One("cas",       64, Cell(1, 1), Cell(0, 0))

(* Calls that the argument checks turn away. *)
Null       == One("store",  0, Cell(0, 0), Cell(1, 1))
Misaligned == One("load",  72, Cell(0, 0), Cell(0, 0))
Straddling == Two(48, Cell(0, 0), Cell(1, 1))

(***************************************************************************)
(* Every build, with the calls that are atomic in it: without locks for    *)
(* the single cells, the pair exchange is only used on its own; where the  *)
(* comparand is not laid out as the code needs, stores and                 *)
(* compare_exchange are the calls that do not depend on it.                *)
(***************************************************************************)
SoundPrograms ==
  {[build |-> "adjacent", requests |-> {FetchAdd, Exchange, Cas, Null}],
   [build |-> "adjacent", requests |-> {FetchAdd, Load, Misaligned}],
   [build |-> "separate", requests |-> {Store, Cas}],
   [build |-> "lock",     requests |->
      {Two(64, Cell(0, 0), Cell(1, 1)), Straddling, FetchAdd,
       One("load", 80, Cell(0, 0), Cell(0, 0))}]}

ASSUME MadeSound == \A p \in SoundPrograms : Sound(p)

(* The build in lib/retryix.dll, with loads. *)
ShippedLoads ==
  {[build |-> "separate", requests |->
      {Load, Store, One("store", 64, Cell(0, 0), Cell(0, 0))}]}
=============================================================================
