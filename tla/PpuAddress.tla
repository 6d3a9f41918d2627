----------------------------- MODULE PpuAddress -----------------------------
(***************************************************************************)
(* The address registers of the PPU.  One register, v, is both the address *)
(* of the data port $2007 and the place in the two by two plane of name    *)
(* tables that the beam shows; another, t, holds what $2000, $2005 and     *)
(* $2006 write, and is copied into v by the second write of an address and *)
(* by the renderer at the ends of lines.  The two-write ports share one    *)
(* toggle, which a status read resets.  (scroll_latch, an exported copy of *)
(* the toggle, and fine_x, which only the pixels see, are left out.)       *)
(*                                                                         *)
(* A step is one register access of the CPU, or the end of a line.         *)
(***************************************************************************)
EXTENDS Integers

CONSTANTS
  Cols, Rows, (* tiles of a name table: 32 by 32                          *)
  Shown,      (* rows that hold tiles, the others hold attributes: 30     *)
  Fine,       (* pixel lines of a tile: 8                                 *)
  Low,        (* span of the low byte of an address: 256                  *)
  FieldLines, DrawnLines,  (* lines of a frame and visible ones: 262, 240         *)
  Scrolls,    (* values the program writes to $2005                       *)
  Pages       (* high bytes it writes to $2006, less the two top bits     *)

ASSUME PlaneAssumption ==
  /\ Cols \in Nat \ {0} /\ Rows \in Nat /\ Low \in Nat \ {0}
  /\ Shown \in 1..Rows - 1
  /\ DrawnLines \in Nat \ {0} /\ FieldLines \in Nat /\ FieldLines > DrawnLines + 1
  /\ Fine \in Nat /\ Fine >= 2

ASSUME ValueAssumption ==
  /\ Scrolls \subseteq 0..Rows * Fine - 1
  /\ Pages \subseteq 0..(2 * Cols * Rows * Fine) \div Low - 1

(* An address, taken apart: the pixel line in the tile, the name table's   *)
(* place in the plane, the tile's row and column.                          *)
Addresses == [fine : 0..Fine - 1, y : 0..1, x : 0..1,
              row : 0..Rows - 1, col : 0..Cols - 1]

(* Its value: the fields side by side, the pixel line on top.              *)
Number(a) == a.col + Cols * (a.row + Rows * (a.x + 2 * a.y + 4 * a.fine))
Address(n) == [col |-> n % Cols, row |-> (n \div Cols) % Rows,
               x |-> (n \div (Cols * Rows)) % 2,
               y |-> (n \div (2 * Cols * Rows)) % 2,
               fine |-> (n \div (4 * Cols * Rows)) % Fine]

(* The address bus has one bit less than v: 2^14.  Its lower half is the   *)
(* pattern tables, which belong to the cartridge.                          *)
BusSize == 2 * Cols * Rows * Fine
Patterns == BusSize \div 2

None == -1

VARIABLES
  v, t,       (* vram_addr and temp_addr                                  *)
  second,     (* addr_latch: the next write of a pair is its second       *)
  inc,        (* what an access to $2007 adds: 1 or a row                 *)
  rendering,  (* one of the layers is on                                  *)
  scan,       (* scanline                                                 *)
  begun,      (* history: the program has written the first of a pair     *)
  page,       (* history: the high byte it wrote, and nothing since       *)
  sought,     (* history: the bus address its pair and its accesses since *)
              (* have led to, or None                                     *)
  table,      (* history: the upper or lower table it chose with $2000    *)
  pixel,      (* history: the vertical position it wrote to $2005         *)
  due         (* history: the line of the plane this line must show       *)

setup == <<inc, rendering>>
seeking == <<page, sought>>
scrolling == <<table, pixel>>
portVars == <<v, t, second, setup, scan, begun, seeking, scrolling, due>>

(* The lines of the plane, counted from the top of its upper tables.       *)
HalfPlane == Shown * Fine
PlaneLine(a) == a.y * HalfPlane + a.row * Fine + a.fine

PortsTypeOK ==
  /\ v \in Addresses /\ t \in Addresses
  /\ second \in BOOLEAN
  /\ inc \in {1, Cols} /\ rendering \in BOOLEAN
  /\ scan \in 0..FieldLines - 1

Zero == [fine |-> 0, y |-> 0, x |-> 0, row |-> 0, col |-> 0]

PortsInit ==
  /\ v = Zero /\ t = Zero
  /\ second = FALSE
  /\ inc = 1 /\ rendering = FALSE
  /\ scan = 0
  /\ begun = FALSE /\ page = None /\ sought = None
  /\ table = None /\ pixel = None /\ due = None

-----------------------------------------------------------------------------
(* $2000.  The table bits are bits of the page of an address, too.         *)
WriteTables ==
  /\ \E x, y \in 0..1 : /\ t' = [t EXCEPT !.x = x, !.y = y]
                        /\ table' = y
  /\ inc' \in {1, Cols}
  /\ page' = None
  /\ UNCHANGED <<v, second, rendering, scan, begun, sought, pixel, due>>

(* $2001.                                                                  *)
WriteMask ==
  /\ rendering' \in BOOLEAN
  /\ UNCHANGED <<v, t, second, inc, scan, begun, seeking, scrolling, due>>

(* Mutant: a status read leaves the toggle.                                *)
ReadStatusOnly ==
  /\ begun' = FALSE /\ page' = None
  /\ UNCHANGED <<v, t, second, setup, scan, sought, scrolling, due>>

(* $2002.                                                                  *)
ReadToggle ==
  /\ second' = FALSE
  /\ begun' = FALSE /\ page' = None
  /\ UNCHANGED <<v, t, setup, scan, sought, scrolling, due>>

(* $2005: the column, then the row and the pixel line.                     *)
WriteScroll(value) ==
  /\ t' = IF ~ second THEN [t EXCEPT !.col = (value \div Fine) % Cols]
          ELSE [t EXCEPT !.fine = value % Fine, !.row = value \div Fine]
  /\ second' = ~ second
  /\ begun' = ~ begun /\ page' = None
  /\ pixel' = IF begun THEN value ELSE pixel
  /\ UNCHANGED <<v, setup, scan, sought, table, due>>

(* $2006: the page, which clears the top bit of t, and the low byte, which *)
(* loads v.                                                                *)
Paged(a, high) == Address(high * Low + (Number(a) % Low))
Lowered(a, low) == Address((Number(a) \div Low) * Low + low)

WritePage(high) ==
  /\ ~ second
  /\ t' = Paged(t, high)
  /\ UNCHANGED v

WriteLow(low) ==
  /\ second
  /\ t' = Lowered(t, low)
  /\ v' = t'

(* What the program takes the write for, by its own count.                 *)
NotePage(high) ==
  /\ page' = high
  /\ UNCHANGED <<sought, due>>

NoteLow(low) ==
  /\ page' = None
  /\ sought' = IF page = None THEN None ELSE page * Low + low
  /\ due' = None

WriteAddress(high, low) ==
  /\ WritePage(high) \/ WriteLow(low)
  /\ second' = ~ second
  /\ IF begun THEN NoteLow(low) ELSE NotePage(high)
  /\ begun' = ~ begun
  /\ table' = None /\ pixel' = None
  /\ UNCHANGED <<setup, scan>>

(* $2007, read or written: increment_vram_addr.                            *)
Stepped(a) == Address((Number(a) + inc) % BusSize)

AccessData ==
  /\ v' = Stepped(v)
  /\ sought' = IF sought = None THEN None ELSE (sought + inc) % BusSize
  /\ due' = None
  /\ UNCHANGED <<t, second, setup, scan, begun, page, scrolling>>

-----------------------------------------------------------------------------
(* Mutant: the rows of attributes are shown, too.                          *)
NextRowPlain(a) ==
  IF a.row = Rows - 1 THEN [a EXCEPT !.row = 0, !.y = 1 - @]
  ELSE [a EXCEPT !.row = @ + 1]

(* increment_render_y.                                                     *)
NextRow(a) ==
  IF a.row = Shown - 1 THEN [a EXCEPT !.row = 0, !.y = 1 - @]
  ELSE IF a.row = Rows - 1 THEN [a EXCEPT !.row = 0]
  ELSE [a EXCEPT !.row = @ + 1]

Down(a) == IF a.fine < Fine - 1 THEN [a EXCEPT !.fine = @ + 1]
           ELSE NextRow([a EXCEPT !.fine = 0])

(* copy_render_x_from_temp and copy_render_y_from_temp.                    *)
AcrossOf(a, b) == [a EXCEPT !.x = b.x, !.col = b.col]
DownOf(a, b) == [a EXCEPT !.y = b.y, !.row = b.row, !.fine = b.fine]

(* The line of the plane that the program asked for, if it is one.         *)
Asked ==
  IF table = None \/ pixel = None \/ pixel >= HalfPlane THEN None
  ELSE table * HalfPlane + pixel

Following(d) ==
  IF d = None THEN None ELSE IF d + 1 = 2 * HalfPlane THEN 0 ELSE d + 1

(* The end of a line in clock_cpu_cycles.                                  *)
ShowLine ==
  /\ scan < DrawnLines
  /\ v' = IF rendering THEN AcrossOf(Down(v), t) ELSE v
  /\ due' = IF rendering THEN Following(due) ELSE due

PrepareFrame ==
  /\ scan = FieldLines - 1
  /\ v' = IF rendering THEN AcrossOf(DownOf(v, t), t) ELSE v
  /\ due' = IF rendering THEN Asked ELSE due

Rest ==
  /\ scan \in DrawnLines..FieldLines - 2
  /\ UNCHANGED <<v, due>>

EndLine ==
  /\ ShowLine \/ PrepareFrame \/ Rest
  /\ scan' = (scan + 1) % FieldLines
  /\ sought' = IF v' = v THEN sought ELSE None
  /\ UNCHANGED <<t, second, setup, begun, page, scrolling>>

PortsNext ==
  \/ WriteTables \/ WriteMask \/ ReadToggle \/ AccessData
  \/ \E value \in Scrolls : WriteScroll(value)
  \/ \E high \in Pages, low \in 0..Low - 1 : WriteAddress(high, low)
  \/ EndLine

PortsSpec == PortsInit /\ [][PortsNext]_portVars

-----------------------------------------------------------------------------
(* A program that reads $2002, then writes a page and a low byte, reaches  *)
(* that address, and its accesses go on from there.                        *)
SeekArrives == sought # None => Number(v) % BusSize = sought

(* While the renderer alone moves v, each line shows the line of the plane *)
(* below the last one, from the position that the program asked for with   *)
(* $2000 and $2005, whatever it wrote to the same ports otherwise.         *)
ScrollIsObeyed == due # None => PlaneLine(v) = due

(* Where the data port puts a byte, and where it takes one from.           *)
WriteGoesTo(a) == IF Number(a) < Patterns THEN "cartridge" ELSE "local"
ReadComesFrom(a) ==
  IF Number(a) % BusSize < Patterns THEN "cartridge" ELSE "local"

(* A byte written to the pattern tables reaches the cartridge, which is    *)
(* where a read at the same address looks for it.                          *)
PatternWritesReachCartridge == WriteGoesTo(v) = ReadComesFrom(v)
=============================================================================
