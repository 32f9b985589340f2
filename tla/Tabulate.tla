------------------------------ MODULE Tabulate ------------------------------
(***************************************************************************)
(* The table that a SELECT's rows are printed as: the parts of the         *)
(* vendored src/bin/tabulate.h that print_rows (src/bin/command.cc) runs.  *)
(* A text is a sequence of characters, a printed table one of lines.  An   *)
(* attribute of a format is a std::optional: <<>>, or <<v>>.  Colours and  *)
(* font styles, which are none, and the locale are left out; so are the    *)
(* setters of formats, which the program does not call.                    *)
(*                                                                         *)
(* So is word_wrap.  No format has a width, so that a column is at least   *)
(* as wide as its widest text, and no text has a newline, for statements   *)
(* are read by getline: every word finds room on the line it is on.        *)
(***************************************************************************)
LOCAL INSTANCE Naturals
LOCAL INSTANCE SequencesExt
LOCAL INSTANCE FiniteSetsExt

Blanks == {" ", "\t"}
Times(n, c) == [i \in 1..n |-> c]

\* The format of a table; width and height have no default.
SetDefaults ==
  [width |-> <<>>, height |-> <<>>, align |-> <<"left">>,
   padding_left |-> <<1>>, padding_right |-> <<1>>, padding_top |-> <<0>>, padding_bottom |-> <<0>>,
   border_top |-> <<"-">>, border_bottom |-> <<"-">>, border_left |-> <<"|">>, border_right |-> <<"|">>,
   show_border_top |-> <<TRUE>>, show_border_bottom |-> <<TRUE>>,
   show_border_left |-> <<TRUE>>, show_border_right |-> <<TRUE>>,
   corner_top_left |-> <<"+">>, corner_top_right |-> <<"+">>,
   corner_bottom_left |-> <<"+">>, corner_bottom_right |-> <<"+">>]

\* The first format has precedence.
Merge(first, second) == [a \in DOMAIN second |-> IF first[a] # <<>> THEN first[a] ELSE second[a]]

\* format() of a row, and of a cell in it: without a format of its own it takes
\* over that of what it is in, and merges the two at every call after.
RowFormat(own) == IF own = <<>> THEN SetDefaults ELSE Merge(own[1], SetDefaults)
CellFormat(own, row) == IF own = <<>> THEN row ELSE Merge(own[1], row)
Taken == CellFormat(<<>>, RowFormat(<<>>))
Format == CellFormat(<<Taken>>, RowFormat(<<RowFormat(<<>>)>>))
Of(a) == Format[a][1]

\* Format::trim.
Inked(s) == {k \in DOMAIN s : s[k] \notin Blanks}
Trim(s) == IF Inked(s) = {} THEN <<>> ELSE SubSeq(s, Min(Inked(s)), Max(Inked(s)))

\* split_lines: an empty last line is none.
SplitLines(text) == IF text = <<>> THEN <<>> ELSE <<text>>
-----------------------------------------------------------------------------
\* Table::add_row: a row that is shorter than the first has empty cells.
AddRow(table, cells) ==
  LET n == IF table = <<>> THEN Len(cells) ELSE Max({Len(table[1]), Len(cells)})
  IN  Append(table, cells \o Times(n - Len(cells), <<>>))
NumColumns(table) == IF table = <<>> THEN 0 ELSE Len(table[1])
ColumnOf(table, j) == [i \in DOMAIN table |-> table[i][j]]

\* compute_cell_dimensions: a column is as wide as its format says or, without
\* that, as its widest line with the padding; a row as high as its format says
\* and at least as its highest cell, which is 0 without any text.
\* Mutation: the names of the columns make the width.
CellWidth(text) ==
  Of("padding_left") + Max({0} \cup {Len(l) : l \in ToSet(SplitLines(text))}) + Of("padding_right")
ConfiguredWidth == Max({0} \cup ToSet(Format.width))
ComputedWidth(column) == Max({0} \cup {CellWidth(text) : text \in ToSet(column)})
ColumnWidthsOfNames(table) == [j \in DOMAIN table[1] |-> CellWidth(table[1][j])]
ColumnWidths(table) ==
  [j \in 1..NumColumns(table) |->
     IF ConfiguredWidth # 0 THEN ConfiguredWidth ELSE ComputedWidth(ColumnOf(table, j))]
CellHeight(text) == Of("padding_top") + Len(SplitLines(text)) + Of("padding_bottom")
ConfiguredHeight == Max({0} \cup ToSet(Format.height))
ComputedHeight(row) == Max({0} \cup {CellHeight(text) : text \in ToSet(row)})
RowHeight(row) == Max({ConfiguredHeight, ComputedHeight(row)})

\* print_content_left_aligned.
LeftAligned(line, used, width) == line \o Times(IF used < width THEN width - used ELSE 0, " ")

\* print_row_in_cell: line k of a cell, or blank above and below the text.
CellLine(text, width, k) ==
  LET lines == SplitLines(text)
      line == Trim(lines[k - Of("padding_top")])
      used == Len(line) + Of("padding_left") + Of("padding_right")
  IN  IF k - Of("padding_top") \notin DOMAIN lines THEN Times(width, " ")
      ELSE Times(Of("padding_left"), " ") \o LeftAligned(line, used, width)
             \o Times(Of("padding_right"), " ")
If(shown, mark) == IF shown THEN <<mark>> ELSE <<>>
RowLine(row, widths, k) ==
  FlattenSeq([j \in DOMAIN row |->
                If(Of("show_border_left"), Of("border_left")) \o CellLine(row[j], widths[j], k)])
    \o If(Of("show_border_right"), Of("border_right"))

\* print_cell_border_top and _bottom, over a row.
BorderTop(widths) ==
  IF ~Of("show_border_top") THEN <<>>
  ELSE <<FlattenSeq([j \in DOMAIN widths |-> <<Of("corner_top_left")>> \o Times(widths[j], Of("border_top"))])
           \o <<Of("corner_top_right")>> >>
BorderBottom(widths) ==
  IF ~Of("show_border_bottom") THEN <<>>
  ELSE <<FlattenSeq([j \in DOMAIN widths |-> <<Of("corner_bottom_left")>> \o Times(widths[j], Of("border_bottom"))])
           \o <<Of("corner_bottom_right")>> >>

\* print_table: of a row without height nothing but the end of the line.
RowLines(row, widths) ==
  LET height == RowHeight(row)
  IN  IF height = 0 THEN <<<<>>>> ELSE [k \in 1..height |-> RowLine(row, widths, k)]
PrintTable(table) ==
  LET widths == ColumnWidths(table)
  IN  FlattenSeq([i \in DOMAIN table |-> BorderTop(widths) \o RowLines(table[i], widths)])
        \o BorderBottom(widths)
=============================================================================
