--------------------------- MODULE DashboardLayout ---------------------------
(***************************************************************************)
(* Where signalfx_dashboard puts its charts.  A block lists charts with    *)
(* their places, or columns, or grids; columns and grids are laid out by   *)
(* the provider, and the API knows of places only.                         *)
(***************************************************************************)
EXTENDS Naturals, FiniteSets, SequencesExt

CONSTANT DashboardColumns    \* the width of a dashboard: 12

ASSUME DashboardColumnsAssumption == DashboardColumns \in Nat \ {0}

\* What a chart, column or grid of the block may set.
Widths == 1..DashboardColumns

----------------------------------------------------------------------------

Place(id, shape, row, column) ==
    [chart_id |-> id, row |-> row, column |-> column,
     width |-> shape.width, height |-> shape.height]

\* One chart of a grid: it goes to the next row when it does not fit.
NextChart(grid, at, id) ==
    LET wraps == at.column + grid.width > DashboardColumns
        row   == IF wraps THEN at.row + grid.height ELSE at.row
        column == IF wraps THEN 0 ELSE at.column
    IN  [row |-> row, column |-> column + grid.width,
         charts |-> Append(at.charts, Place(id, grid, row, column))]

\* A grid begins in the first column, below the grid before it.
SameRow(at, grid) ==  \* mutant: the next grid begins in the last row
    FoldLeft(LAMBDA a, id : NextChart(grid, a, id),
             [at EXCEPT !.column = 0], grid.chart_ids)
NextGrid(at, grid) ==
    LET laid == FoldLeft(LAMBDA a, id : NextChart(grid, a, id),
                         [at EXCEPT !.column = 0], grid.chart_ids)
    IN  [laid EXCEPT !.row = @ + grid.height]

getDashboardGrids(grids) ==
    FoldLeft(NextGrid, [row |-> 0, column |-> 0, charts |-> <<>>],
             grids).charts

\* Each column begins in the first row, in whatever column it is told.
getDashboardColumns(columns) ==
    FlattenSeq([i \in DOMAIN columns |->
        [j \in DOMAIN columns[i].chart_ids |->
            Place(columns[i].chart_ids[j], columns[i],
                  (j - 1) * columns[i].height, columns[i].column)]])

\* The charts of the payload; where there is none, the field is left out.
DashboardCharts(layout) ==
    layout.chart \union ToSet(getDashboardColumns(layout.columns))
                 \union ToSet(getDashboardGrids(layout.grids))

\* With a grid or a column in the entry nothing is read back.
KeepsOwnLayout(layout) == layout.grids # <<>> \/ layout.columns # <<>>
ReadLayout(layout, charts) ==
    IF KeepsOwnLayout(layout) THEN layout
    ELSE [layout EXCEPT !.chart = charts]

----------------------------------------------------------------------------
(* Reference definition: what it is for charts to be well placed.          *)

Cells(p) == {<<p.row + i, p.column + j>> : i \in 0..(p.height - 1),
                                           j \in 0..(p.width - 1)}
WellPlaced(places) ==
    /\ \A p \in places : p.column + p.width <= DashboardColumns
    /\ \A p, q \in places : p # q => Cells(p) \intersect Cells(q) = {}

----------------------------------------------------------------------------
(* Bounded inputs: two grids of up to three charts, two columns.           *)

Ids(n) == [i \in 1..n |-> i]
Grids == [chart_ids : {Ids(n) : n \in 0..3}, width : Widths, height : 1..2]
Columns == [chart_ids : {Ids(n) : n \in 1..2}, column : {0, DashboardColumns - 1},
            width : {1}, height : 1..2]
SomePlaces == {Place(1, [width |-> 1, height |-> 1], row, 0) : row \in 0..1}

NoLayout == [chart |-> {}, columns |-> <<>>, grids |-> <<>>]
Layouts ==
    {[NoLayout EXCEPT !.chart = places] : places \in SUBSET SomePlaces}
    \union {[NoLayout EXCEPT !.columns = columns] :
                columns \in UNION {[1..n -> Columns] : n \in 1..2}}
    \union {[NoLayout EXCEPT !.grids = grids] :
                grids \in UNION {[1..n -> Grids] : n \in 1..2}}

\* The charts of these blocks, laid out once.
LaidOut == [layout \in Layouts |-> DashboardCharts(layout)]
=============================================================================
