--------------------------------- MODULE Grid ---------------------------------
(****************************************************************************)
(* The two-dimensional containers: AbstractGridContainer over the flat      *)
(* m_grid, with DynamicArray2D, which keeps its dimensions and can grow,    *)
(* and Array2D, which derives them from the ordering policy.  As a record:  *)
(* rows and cols are what size(ROWS) and size(COLUMNS) return, whichever    *)
(* class it is, and transposed says that the policy is COLUMN_MAJOR.        *)
(* Rows, columns and flat positions count from 0, as in the code.           *)
(****************************************************************************)
EXTENDS Integers, Sequences, SequencesExt

CONSTANTS
  Cell,      \* what a cell holds
  Blank,     \* T{}
  Shapes,    \* the dimensions <<rows, cols>> of new grids
  Pads,      \* the amounts extend adds
  MaxSize    \* bound on the number of cells

VARIABLES
  grid,      \* the container
  matrix,     \* what it should hold, by row and column
  fit        \* no call the container does not support in its present shape was made

gridVars == <<grid, matrix, fit>>

-----------------------------------------------------------------------------
Blanks(n) == <<>> \o [i \in 1..n |-> Blank]

\* DynamicArray2D(rows, cols, policy)
NewGrid(rows, cols, transposed) ==
  [m |-> Blanks(rows * cols), rows |-> rows, cols |-> cols, transposed |-> transposed]

Size(g) == g.rows * g.cols
Swapped(g, r, c) == IF g.transposed THEN <<c, r>> ELSE <<r, c>>

\* at const, set and flatten: the stride is COLUMNS under either policy.
Flatten(g, r, c) == LET at == Swapped(g, r, c) IN at[1] * g.cols + at[2]

\* at non-const, which the iterators and at(pos) use: ROWS when transposed.
RefIndex(g, r, c) == LET at == Swapped(g, r, c) IN at[1] * (IF g.transposed THEN g.rows ELSE g.cols) + at[2]

ConstRead(g, r, c) == g.m[Flatten(g, r, c) + 1]

\* getRowCol and boundCheck
RowCol(g, pos) == <<pos \div g.cols, pos % g.cols>>
InBounds(g, r, c) == r < g.rows /\ c < g.cols

\* A flat index past the end of m_grid reads or writes foreign memory.
InMemory(g, i) == i < Len(g.m)
Set(g, v, r, c) == IF InMemory(g, Flatten(g, r, c)) THEN [g EXCEPT !.m[Flatten(g, r, c) + 1] = v] ELSE g

\* transpose swaps the policy, and so the dimensions.
Transposed(g) == [g EXCEPT !.transposed = ~@, !.rows = g.cols, !.cols = g.rows]

\* extend: ROWS resizes m_grid, COLUMNS inserts after the end of each row.
\* The elements behind a grid that is transposed are shifted all the same.
ExtendRows(g, n) == [g EXCEPT !.rows = @ + n, !.m = @ \o Blanks(n * g.cols)]
ExtendColsMutant(g, n) ==
  [g EXCEPT !.cols = @ + n, !.m = @ \o Blanks(n * g.rows)]
ExtendCols(g, n) ==
  [g EXCEPT !.cols = @ + n,
            !.m = [i \in 1..g.rows * (g.cols + n) |->
                     LET r == (i - 1) \div (g.cols + n)
                         c == (i - 1) % (g.cols + n)
                     IN  IF c < g.cols THEN g.m[r * g.cols + c + 1] ELSE Blank]]

\* transposeRaw: each element at its position in another grid, read through
\* the iterator while the grid is transposed.
TransposeRaw(view, to) ==
  LET read(pos) == LET rc == RowCol(view, pos) IN view.m[RefIndex(view, rc[1], rc[2]) + 1]
  IN  FoldLeft(LAMBDA dst, pos : LET rc == RowCol(dst, pos - 1) IN Set(dst, read(pos - 1), rc[1], rc[2]),
               to, [i \in 1..Size(view) |-> i])

\* deepTranspose: a row-major copy of the transposed grid; one that is
\* transposed already is copied as it appears.
DeepTranspose(g) ==
  LET view == IF g.transposed THEN g ELSE Transposed(g)
  IN  TransposeRaw(view, NewGrid(view.rows, view.cols, FALSE))

-----------------------------------------------------------------------------
Init ==
  /\ \E shape \in Shapes, transposed \in BOOLEAN :
       grid = NewGrid(shape[1], shape[2], transposed)
  /\ matrix = [rc \in (0..grid.rows - 1) \X (0..grid.cols - 1) |-> Blank]
  /\ fit = TRUE

Square == grid.rows = grid.cols
Rearranged(rows, cols, f(_)) == matrix' = [rc \in (0..rows - 1) \X (0..cols - 1) |-> f(rc)]

\* set, of a position or of a row and a column; out of bounds it throws.
SetCell(v, r, c) ==
  /\ InBounds(grid, r, c)
  /\ grid' = Set(grid, v, r, c)
  /\ matrix' = [matrix EXCEPT ![<<r, c>>] = v]
  /\ fit' = (fit /\ (Square \/ ~grid.transposed))

\* An assignment through the reference of at, operator[] or an iterator.
WriteRef(v, pos) ==
  LET rc == RowCol(grid, pos)
  IN  /\ pos < Size(grid)
      /\ InMemory(grid, RefIndex(grid, rc[1], rc[2]))
      /\ grid' = [grid EXCEPT !.m[RefIndex(grid, rc[1], rc[2]) + 1] = v]
      /\ matrix' = [matrix EXCEPT ![rc] = v]
      /\ UNCHANGED fit

Transpose ==
  /\ grid' = Transposed(grid)
  /\ Rearranged(grid.cols, grid.rows, LAMBDA rc : matrix[<<rc[2], rc[1]>>])
  /\ UNCHANGED fit

\* extend(dim, n), extend(r, c) and extend(n); a transposed grid is not supported.
Extend(rows, cols) ==
  /\ (grid.rows + rows) * (grid.cols + cols) <= MaxSize
  /\ grid' = ExtendCols(ExtendRows(grid, rows), cols)
  /\ Rearranged(grid.rows + rows, grid.cols + cols, LAMBDA rc : IF rc \in DOMAIN matrix THEN matrix[rc] ELSE Blank)
  /\ fit' = (fit /\ (~grid.transposed \/ rows + cols = 0))

\* The program goes on with the grid that deepTranspose returned.
TakeTransposed ==
  /\ grid' = DeepTranspose(grid)
  /\ IF grid.transposed THEN UNCHANGED matrix
     ELSE Rearranged(grid.cols, grid.rows, LAMBDA rc : matrix[<<rc[2], rc[1]>>])
  /\ UNCHANGED fit

Next ==
  \/ \E v \in Cell, pos \in 0..Size(grid) - 1 :
       \/ WriteRef(v, pos)
       \/ LET rc == RowCol(grid, pos) IN SetCell(v, rc[1], rc[2])
  \/ Transpose \/ TakeTransposed
  \/ \E rows, cols \in Pads : Extend(rows, cols)

Spec == Init /\ [][Next]_gridVars
-----------------------------------------------------------------------------
\* A grid that was only set or extended when it was square or not transposed
\* gives back, at every row and column, what was last written there: through
\* the references and the iterators always, and through the const reads while
\* it is square or not transposed.
ReadsWhatWasWritten ==
  fit => \A rc \in DOMAIN matrix :
           /\ grid.m[RefIndex(grid, rc[1], rc[2]) + 1] = matrix[rc]
           /\ Square \/ ~grid.transposed => ConstRead(grid, rc[1], rc[2]) = matrix[rc]
=============================================================================
