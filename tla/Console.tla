------------------------------- MODULE Console -------------------------------
(***************************************************************************)
(* The console of a thread, js_sys_module/console/console.cpp: counters,   *)
(* timers and the indentation of groups are kept per thread; what is       *)
(* printed is a format with its arguments, a time, or a table.             *)
(***************************************************************************)
EXTENDS Integers, Sequences, SequencesExt

CONSTANTS
  Names,          \* bound: of counters and timers
  MaxCalls,       \* bound: calls of one program
  MaxFormat,      \* bound: the length of a format
  MaxRows, Columns, \* bounds: rows of a table, and the keys of their objects
  Base            \* of the units of time: 60, and 1000 for milliseconds

VARIABLE console

(* The characters that matter in a format, an argument being above them.   *)
Percent == 1
Letter == 2     \* one of s j d O o i f c
Other == 3
Space == 4
Arg(i) == 10 + i
Empty == 0      \* what converts to the empty string
IsArg(c) == c >= 10
Absent == 0
Width == 4      \* GROUPINDETATIONWIDTH

(* indent: length of groupIndent; open: groups opened and not yet closed   *)
(* counters and timers of the names                                        *)
(* printed: what the last call has printed, and what it was given          *)
TypeOK ==
  /\ console.calls \in 0..MaxCalls /\ console.indent \in Nat
  /\ DOMAIN console.counters = Names /\ DOMAIN console.timers = Names
  /\ console.printed.kind \in {"nothing", "text", "count", "time", "warning", "table", "undefined"}

----------------------------------------------------------------------------
(* ParseLogContent: each placeholder is an argument as long as there are   *)
(* some; "%%" is "%"; the rest of the format is kept as it is, and the     *)
(* rest of the arguments appended.                                         *)
RECURSIVE Scan(_, _, _)
Scan(format, args, pos) ==
  LET rest == SubSeq(format, pos, Len(format)) \o FlattenSeq([i \in DOMAIN args |-> <<Space, args[i]>>])
      next == format[pos + 1]
  IN  IF pos > Len(format) \/ args = <<>> THEN rest
      ELSE IF format[pos] # Percent THEN <<format[pos]>> \o Scan(format, args, pos + 1)
      ELSE IF pos = Len(format) THEN rest
      ELSE IF next = Letter THEN <<Head(args)>> \o Scan(format, Tail(args), pos + 2)
      ELSE IF next = Percent THEN <<Percent>> \o Scan(format, args, pos + 2)
      ELSE <<Percent>> \o Scan(format, args, pos + 1)

(* MakeLogContent: what converts to nothing is left out, and does not take *)
(* a placeholder.                                                          *)
MakeLogContent(format, args) == Scan(format, SelectSeq(args, LAMBDA a : a # Empty), 1)

----------------------------------------------------------------------------
(* Tables.  A row is a primitive or an object: a function from some of the *)
(* columns.  ProcessTabularData collects the columns in the order in which *)
(* they are first met, each with its values by row.                        *)

Primitive == [primitive |-> TRUE, of |-> {}]
Object(keys) == [primitive |-> FALSE, of |-> keys]
Rows(n) == [1..n -> {Primitive} \union {Object(keys) : keys \in SUBSET Columns}]
Cell(i, key) == <<i, key>>
NoCell == <<0, 0>>
ValuesColumn == -1
IndexColumn == -2
(* The keys of an object come in one order. *)
Sorted(keys) == SetToSortSeq(keys, LAMBDA x, y : x < y)

(* ProcessNestedObject, for one row after the other: the keys of the map   *)
ColumnsOf(table) ==
  FoldLeft(LAMBDA met, row : met \o SelectSeq(Sorted(row.of), LAMBDA k : \A i \in DOMAIN met : met[i] # k), <<>>, table)
MapOf(table, key) == [i \in DOMAIN table |-> IF key \in table[i].of THEN Cell(i, key) ELSE NoCell]

(* GetKeyArray, and SetPrimitive's column                                  *)
HasPrimitive(table) == \E i \in DOMAIN table : table[i].primitive
KeyArray(table) == <<IndexColumn>> \o ColumnsOf(table) \o (IF HasPrimitive(table) THEN <<ValuesColumn>> ELSE <<>>)
(* GetValueArray: the index of the rows, the columns one after the other,  *)
(* and at the end the primitive values.                                    *)
ValueArray(table) ==
  LET index == [i \in DOMAIN table |-> Cell(i, IndexColumn)]
      columns == FlattenSeq([j \in DOMAIN ColumnsOf(table) |-> MapOf(table, ColumnsOf(table)[j])])
      values == [i \in DOMAIN table |-> IF table[i].primitive THEN Cell(i, ValuesColumn) ELSE NoCell]
  IN  index \o columns \o (IF HasPrimitive(table) THEN values ELSE <<>>)
(* PrintRows: row i has the elements j * indexNum + i.                     *)
PrintRows(values, width, indexNum) ==
  [i \in 1..indexNum |-> [j \in 1..width |-> values[(j - 1) * indexNum + i]]]
(* The widths of columns, from those of what is in them (Size); a cell is  *)
(* put in the middle of what it leaves.                                    *)
Size(cell) == IF cell = NoCell THEN 0 ELSE cell[1]
GraphTable(table) ==
  LET head == KeyArray(table)
      rows == PrintRows(ValueArray(table), Len(head), Len(table))
      Widest(j) == LET sizes == {Size(rows[i][j]) : i \in DOMAIN rows} \union {1} IN CHOOSE m \in sizes : \A n \in sizes : n <= m
      Left(i, j) == (Widest(j) - Size(rows[i][j])) \div 2
  IN  [head |-> head, rows |-> rows,
       widths |-> [i \in DOMAIN rows |-> [j \in DOMAIN head |->
          Left(i, j) + Size(rows[i][j]) + (Widest(j) - Size(rows[i][j]) - Left(i, j))]]]

----------------------------------------------------------------------------
(* PrintTime: a duration in hours, minutes, seconds and milliseconds, the  *)
(* leading ones that are zero left out.                                    *)
SplitTime(time) ==
  LET hour == Base * Base * Base
      hours == time \div hour
      ms1 == time % hour
      minutes == ms1 \div (Base * Base)
      ms2 == ms1 % (Base * Base)
      parts == <<hours, minutes, ms2 \div Base, ms2 % Base>>
      first == CHOOSE i \in 1..4 : (i = 4 \/ parts[i] # 0) /\ \A k \in 1..(i - 1) : parts[k] = 0
  IN  SubSeq(parts, first, 4)

----------------------------------------------------------------------------
(* The calls; a program makes some of them in any order. *)

Printed(kind, what) == [kind |-> kind, what |-> what, indent |-> console.indent, given |-> <<>>]
Call(new) == console.calls < MaxCalls /\ console' = [new EXCEPT !.calls = @ + 1]

Init ==
  console = [calls |-> 0, indent |-> 0, open |-> 0, counters |-> [n \in Names |-> Absent],
             timers |-> [n \in Names |-> Absent],
             printed |-> [kind |-> "nothing", what |-> <<>>, indent |-> 0, given |-> <<>>]]

Formats == UNION {[1..n -> {Percent, Letter, Other}] : n \in 0..MaxFormat}
Arguments == UNION {[1..n -> BOOLEAN] : n \in 0..2}
(* log and its levels, assert and trace; dir prints one value.             *)
ConsoleLog ==
  /\ console.calls = 0
  /\ \E format \in Formats \ {<<>>}, full \in Arguments :
       LET args == [i \in DOMAIN full |-> IF full[i] THEN Arg(i) ELSE Empty]
       IN  Call([console EXCEPT !.printed = [Printed("text", MakeLogContent(format, args)) EXCEPT !.given = <<format, args>>]])

(* table; what is no object is printed as a text, and its keys then too.   *)
Table ==
  /\ console.calls = 0
  /\ \E n \in 1..MaxRows : \E table \in Rows(n) :
       Call([console EXCEPT !.printed = [Printed("table", GraphTable(table)) EXCEPT !.given = table]])

Group == Call([console EXCEPT !.indent = @ + Width, !.open = @ + 1, !.printed = Printed("nothing", <<>>)])
\* Mutant: the indentation is shortened without a look at its length.
GroupEndUnguarded ==
  Call([console EXCEPT !.indent = @ - Width, !.open = @ - 1, !.printed = Printed("nothing", <<>>)])
GroupEnd ==
  Call([console EXCEPT !.indent = IF @ >= Width THEN @ - Width ELSE @, !.open = IF @ > 0 THEN @ - 1 ELSE 0,
                       !.printed = Printed("nothing", <<>>)])

Count(n) ==
  Call([console EXCEPT !.counters[n] = @ + 1, !.printed = Printed("count", <<n, console.counters[n] + 1>>)])
CountReset(n) ==
  Call([console EXCEPT !.counters[n] = Absent,
                       !.printed = Printed(IF console.counters[n] = Absent THEN "warning" ELSE "nothing", <<n>>)])

(* Time passes by one with every call.                                     *)
Now == console.calls + 1
Time(n) ==
  Call([console EXCEPT !.timers[n] = IF @ = Absent THEN Now ELSE @,
                       !.printed = Printed(IF console.timers[n] = Absent THEN "nothing" ELSE "warning", <<n>>)])
PrintTimer(n, timer) ==
  IF console.timers[n] = Absent THEN Printed("warning", <<n>>)
  ELSE [Printed("time", SplitTime(Now - console.timers[n])) EXCEPT !.given = <<Now - console.timers[n]>>]
TimeLog(n) == Call([console EXCEPT !.printed = PrintTimer(n, console.timers[n])])
TimeEnd(n) ==
  Call([console EXCEPT !.printed = PrintTimer(n, console.timers[n]), !.timers[n] = Absent])

Next ==
  \/ ConsoleLog \/ Table \/ Group \/ GroupEnd
  \/ \E n \in Names : Count(n) \/ CountReset(n) \/ Time(n) \/ TimeLog(n) \/ TimeEnd(n)
Spec == Init /\ [][Next]_console

----------------------------------------------------------------------------
(* The arguments of a text are all in it, once and in order; without any   *)
(* the format is printed as it is.                                         *)
ArgumentsArePrinted ==
  console.printed.kind = "text" =>
    LET what == console.printed.what
        given == console.printed.given
        args == SelectSeq(given[2], LAMBDA a : a # Empty)
    IN  /\ SelectSeq(what, IsArg) = args
        /\ args = <<>> => what = given[1]

(* Every value of a table is in the row of its index, under its key, and   *)
(* nothing else is anywhere; the rows are equally wide.                    *)
TablesAreRight ==
  console.printed.kind = "table" =>
    LET table == console.printed.given
        head == console.printed.what.head
        rows == console.printed.what.rows
    IN  /\ Len(rows) = Len(table)
        /\ \A i \in DOMAIN rows : \A j \in DOMAIN head :
             /\ rows[i][j] \in {NoCell, Cell(i, head[j])}
             /\ rows[i][j] # NoCell <=>
                  head[j] = IndexColumn \/ (head[j] = ValuesColumn /\ table[i].primitive) \/ head[j] \in table[i].of
        /\ \A i \in DOMAIN table : table[i].of \subseteq Range(head)
        /\ \A i, k \in DOMAIN rows : console.printed.what.widths[i] = console.printed.what.widths[k]

(* The indentation is that of the groups that are open, and a timer shows  *)
(* the time since it was started, each part of it below its unit.          *)
Weighted(parts) == FoldLeft(LAMBDA sum, part : sum * Base + part, 0, parts)
TimesAreRight ==
  /\ console.indent = Width * console.open
  /\ console.printed.kind = "time" =>
       /\ Weighted(console.printed.what) = console.printed.given[1]
       /\ \A i \in 2..Len(console.printed.what) : console.printed.what[i] < Base
=============================================================================
