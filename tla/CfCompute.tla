------------------------------- MODULE CfCompute -------------------------------
(***************************************************************************)
(* cfcompute_task: the terms of a convolution function are computed from   *)
(* grids of coordinates, multiplied and transformed, each table printed    *)
(* once it is done and destroyed when no longer needed.  The driver only   *)
(* launches tasks, some of them for each color of a partition; the runtime *)
(* runs a piece of a launch when no piece of an earlier launch that it     *)
(* conflicts with is left.  The driver itself waits where it maps columns  *)
(* into memory.                                                            *)
(***************************************************************************)
EXTENDS CfProduct

CONSTANTS
    Inputs,   \* the arguments: index values, sizes of grids, coefficients, cuts,
              \* and what the memory of new instances holds
    Window,   \* the launches that may be pending
    Strays    \* what may be read past the end of a rectangle

VARIABLES
    input,    \* one of Inputs
    next,     \* the next step of the driver
    space,    \* the ColumnSpace of every column made so far
    value,    \* the contents of the columns that exist
    tasks,    \* the pending launches, in order, each with the colors left
    shown     \* what was printed, by title

vars == <<input, next, space, value, tasks, shown>>

---------------------------------------------------------------------------
(* The steps of the driver.                                                *)

Step(do, on) == [do |-> do, on |-> on]

TermSteps(coords, term, title) ==
    <<Step("Create", coords), Step("Coordinates", coords), Step("Create", term),
      Step("Cfs", term), Step("Show", title), Step("Destroy", coords)>>

\* ATermTable::compute_cfs, compute_jones included
ATermSteps ==
    <<Step("Create", "zmodel"), Step("Zernike", "zmodel"), Step("Pcs", "zmodel"),
      Step("Create", "aif"), Step("Epts", "a_coords"), Step("Aifs", "aif"),
      Step("Fft", "aif"), Step("Destroy", "zmodel"), Step("Cfs", "a"),
      Step("Destroy", "aif")>>

Program ==
    TermSteps("ps_coords", "ps", "PSTerm") \o TermSteps("w_coords", "w", "WTerm")
    \o <<Step("Create", "a_coords"), Step("Coordinates", "a_coords"), Step("Create", "a")>>
    \o ATermSteps
    \o <<Step("Show", "ATerm"), Step("Destroy", "a_coords"), Step("Create", "cf"),
         Step("Overwrite", "a"), Step("Multiply", "w"), Step("Multiply", "ps"),
         Step("Show", "Pre-FFT CF"), Step("Fft", "cf"), Step("Show", "Post-FFT CF"),
         Step("Destroy", "ps"), Step("Destroy", "w"), Step("Destroy", "a"),
         Step("Destroy", "cf")>>

Titled == [PSTerm |-> "ps", WTerm |-> "w", ATerm |-> "a"]

TableShown(title) == IF title \in DOMAIN Titled THEN Titled[title] ELSE "cf"

Value(table) == <<table, "VALUE">>

\* The column EPT, which compute_epts adds to the table, is made with it here.
ColumnsOf(table) ==
    IndexColumns(table) \cup {Value(table)}
    \cup (CASE table \in {"ps_coords", "w_coords"} -> {<<table, "COORD">>}
            [] table = "a_coords" -> {<<table, "COORD">>, <<table, "EPT">>}
            [] table = "zmodel" -> {<<table, "ZC">>, <<table, "PC">>}
            [] OTHER -> {})

\* The values of an index column, as they are read back by the driver.
ValuesOf(table, axis) ==
    [k \in 1 .. space[<<table, axis>>].size[1] |-> value[<<table, axis>>][<<k - 1>>]]

\* The index values and the size of the grid with which a table is created.
IndexValues(table) ==
    CASE table = "ps" -> [PS_SCALE |-> input.scales]
      [] table = "w" -> [W |-> input.ws]
      [] table \in {"ps_coords", "w_coords"} -> [PARALLACTIC_ANGLE |-> <<0>>]
      [] table = "a_coords" -> [PARALLACTIC_ANGLE |-> input.pas]
      [] table = "a" -> [BASELINE_CLASS |-> input.blcs, PARALLACTIC_ANGLE |-> input.pas,
                         FREQUENCY |-> input.frqs, STOKES_OUT |-> input.out,
                         STOKES_IN |-> input.in]
      [] table \in {"zmodel", "aif"} ->
            [axis \in ToSet(AxesOf[table]) |->
               IF axis = "STOKES"
               THEN StokesValues(ValuesOf("a", "STOKES_OUT"), ValuesOf("a", "STOKES_IN"))
               ELSE ValuesOf("a", axis)]
      [] table = "cf" ->
            [axis \in ToSet(AxesOf["cf"]) |-> ValuesOf(AxisSource(axis), axis)]

GridSize(table) ==
    CASE table \in {"ps", "ps_coords"} -> input.grid.ps
      [] table \in {"w", "w_coords"} -> input.grid.w
      [] table = "zmodel" -> 1
      [] OTHER -> input.grid.a

Diameter(table) ==   \* of the coordinates: half the grid, 2.0 and 1.0 are the radii
    CASE table = "ps_coords" -> input.grid.ps
      [] table = "w_coords" -> 4
      [] table = "a_coords" -> 2

\* The ColumnSpaces that the constructor of a table makes.
SpacesOf(table, values) ==
    LET index == AxesOf[table]
        all == ValueSpace(table, [axis \in DOMAIN values |-> Len(values[axis])],
                          GridSize(table))
        other(name) == [all EXCEPT !.id = name,
                                   !.axes = SubSeq(@, 1, Len(index)),
                                   !.size = SubSeq(@, 1, Len(index))]
    IN [col \in ColumnsOf(table) |->
          CASE col[2] \in {"VALUE", "COORD"} -> all
            [] col[2] = "EPT" -> [all EXCEPT !.id = "EPT"]
            [] col[2] \in {"ZC", "PC"} -> other(col[2])
            [] OTHER -> IndexSpace(col[2], Len(values[col[2]]))]

---------------------------------------------------------------------------
(* What the launch of a step asks of the runtime.                          *)

Reads(step) ==
    CASE step.do = "Coordinates" -> {<<step.on, "PARALLACTIC_ANGLE">>}
      [] step.do = "Cfs" /\ step.on = "ps" -> {<<"ps_coords", "COORD">>} \cup IndexColumns("ps")
      [] step.do = "Cfs" /\ step.on = "w" -> {<<"w_coords", "COORD">>} \cup IndexColumns("w")
      [] step.do = "Cfs" /\ step.on = "a" ->
            {Value("aif"), <<"aif", "STOKES">>, <<"a", "STOKES_OUT">>, <<"a", "STOKES_IN">>}
      [] step.do = "Pcs" -> {<<"zmodel", "ZC">>}
      [] step.do = "Epts" -> {<<"a_coords", "COORD">>}
      [] step.do = "Aifs" -> {<<"zmodel", "PC">>, <<"a_coords", "EPT">>}
      [] step.do \in {"Overwrite", "Multiply"} -> {Value(step.on)}
      [] step.do = "Show" ->
            IndexColumns(TableShown(step.on)) \cup {Value(TableShown(step.on))}
      [] OTHER -> {}

Writes(step) ==
    CASE step.do = "Create" -> IndexColumns(step.on)
      [] step.do = "Coordinates" -> {<<step.on, "COORD">>}
      [] step.do = "Pcs" -> {<<"zmodel", "PC">>}
      [] step.do = "Epts" -> {<<"a_coords", "EPT">>}
      [] step.do \in {"Cfs", "Aifs", "Fft"} -> {Value(step.on)}
      [] step.do \in {"Overwrite", "Multiply"} -> {Product}
      [] step.do = "Destroy" -> ColumnsOf(step.on)
      [] OTHER -> {}

\* The columns that the driver maps into its memory: compute_cfs the index
\* columns of the ATermTable, create_and_fill all of the terms.
Waits(step) ==
    CASE step = Step("Create", "zmodel") -> IndexColumns("a")
      [] step = Step("Create", "cf") -> ColumnsOf("a") \cup ColumnsOf("w") \cup ColumnsOf("ps")
      [] OTHER -> {}

\* The partition given to compute_cfs of the ATermTable is one of its rows.
RowPartition ==
    LET cols == space[Value("a")]
        n == Len(AxesOf["a"])
    IN IF input.cut = <<>> THEN NoPartition
       ELSE Blocks([cols EXCEPT !.id = "a_rows", !.axes = SubSeq(@, 1, n),
                                !.size = SubSeq(@, 1, n)], input.cut)

JonesPartition == OrElse(Narrow(space[Value("aif")], RowPartition, {"X", "Y"}), RowPartition)

PartitionOf(step) ==
    CASE step = Step("Cfs", "w") /\ input.wcut # <<>> -> Blocks(space[Value("w")], input.wcut)
      [] step = Step("Pcs", "zmodel") ->
            OrElse(Narrow(space[Value("zmodel")], RowPartition, {}), RowPartition)
      [] step = Step("Epts", "a_coords") -> Narrow(space[<<"a_coords", "COORD">>], JonesPartition, {})
      [] step = Step("Aifs", "aif") -> JonesPartition
      [] step = Step("Fft", "aif") -> Narrow(space[Value("aif")], JonesPartition, {"X", "Y"})
      [] step = Step("Cfs", "a") -> OrElse(Narrow(space[Value("a")], RowPartition, {}), RowPartition)
      [] OTHER -> NoPartition

ColorsOf(partition) == IF IsValid(partition) THEN Colors(partition) ELSE {<<>>}

Region(partition, col, color) ==
    IF IsValid(partition)
    THEN Piece(ProjectOnto(partition, space[col]), space[col], color)
    ELSE Whole(space[col])

Uses(task) == Reads(task.step) \cup Writes(task.step)

\* mutant: only writers wait for each other
ConflictOfWriters(task, color, earlier, other) ==
    \E col \in Writes(task.step) \cap Writes(earlier.step) :
        Meets(Region(task.partition, col, color), Region(earlier.partition, col, other))

\* A piece waits for the pieces of earlier launches that write what it uses,
\* or use what it writes.
Conflict(task, color, earlier, other) ==
    \E col \in Uses(task) \cap Uses(earlier) :
        /\ col \in Writes(task.step) \cup Writes(earlier.step)
        /\ Meets(Region(task.partition, col, color), Region(earlier.partition, col, other))

Ready(i, color) ==
    \A j \in 1 .. i - 1 : \A other \in tasks[j].left :
        ~Conflict(tasks[i], color, tasks[j], other)

---------------------------------------------------------------------------

Init ==
    /\ input \in Inputs
    /\ next = 1
    /\ space = <<>>
    /\ value = <<>>
    /\ tasks = <<>>
    /\ shown = <<>>

Current == Program[next]

Mapped(cols) == \A i \in DOMAIN tasks : Writes(tasks[i].step) \cap cols = {}

Launch(values) ==
    LET partition == PartitionOf(Current)
    IN tasks' = Append(tasks, [step |-> Current, partition |-> partition,
                               values |-> values, left |-> ColorsOf(partition)])

\* The constructor of a table, its index values given or read back.
CreateTable ==
    /\ next <= Len(Program) /\ Current.do = "Create"
    /\ Len(tasks) < Window
    /\ Mapped(Waits(Current))
    /\ LET values == IndexValues(Current.on)
           spaces == SpacesOf(Current.on, values)
       IN /\ space' = Added(space, spaces)
          /\ value' = Added(value, [col \in DOMAIN spaces |-> <<>>])
          /\ Launch(values)
    /\ next' = next + 1
    /\ UNCHANGED <<input, shown>>

\* init_zc_region, by the driver itself
InitZernike ==
    /\ next <= Len(Program) /\ Current.do = "Zernike"
    /\ \E zcs \in Orders(input.zcs) :
         LET sto == StokesValues(ValuesOf("a", "STOKES_OUT"), ValuesOf("a", "STOKES_IN"))
             coefficients(l) ==
                 Coefficients(Candidates(zcs, value[<<"a", "BASELINE_CLASS">>][<<l[1]>>],
                                         sto[l[3] + 1]),
                              value[<<"a", "FREQUENCY">>][<<l[2]>>],
                              ZernikeOrder(input.zcs))
             col == <<"zmodel", "ZC">>
         IN value' = [value EXCEPT ![col] = [l \in Box(space[col].size) |-> coefficients(l)]]
    /\ next' = next + 1
    /\ UNCHANGED <<input, space, tasks, shown>>

LaunchTask ==
    /\ next <= Len(Program) /\ Current.do \notin {"Create", "Zernike"}
    /\ Len(tasks) < Window
    /\ Launch(<<>>)
    /\ next' = next + 1
    /\ UNCHANGED <<input, space, value, shown>>

---------------------------------------------------------------------------
(* The tasks.                                                              *)

Runs(i, color, do, on) ==
    /\ tasks[i].step.do = do
    /\ tasks[i].step.on \in on
    /\ Ready(i, color)
    /\ tasks' = IF tasks[i].left = {color} THEN RemoveAt(tasks, i)
                ELSE [tasks EXCEPT ![i].left = @ \ {color}]
    /\ UNCHANGED <<input, next, space>>

RegionsOf(i, color) == [col \in Uses(tasks[i]) |-> Region(tasks[i].partition, col, color)]

Stores(col, writes) ==
    /\ value' = [value EXCEPT ![col] = Store(@, writes)]
    /\ UNCHANGED shown

InitIndexColumns(i, color) ==
    /\ Runs(i, color, "Create", DOMAIN AxesOf)
    /\ LET table == tasks[i].step.on
           body(col) == InitBody(table, col, tasks[i].values, RegionsOf(i, color))
       IN value' = Added(value, [col \in IndexColumns(table) |-> Store(value[col], body(col))])
    /\ UNCHANGED shown

ComputeCoordinates(i, color) ==
    LET table == tasks[i].step.on
    IN /\ Runs(i, color, "Coordinates", DOMAIN AxesOf)
       /\ Stores(<<table, "COORD">>,
                 CoordinatesBody(table, Diameter(table), value, RegionsOf(i, color)))

ComputePSTerm(i, color) ==
    /\ Runs(i, color, "Cfs", {"ps"})
    /\ Stores(Value("ps"), PSTermBody(value, RegionsOf(i, color)))

ComputeWTerm(i, color) ==
    /\ Runs(i, color, "Cfs", {"w"})
    /\ Stores(Value("w"), WTermBody(value, RegionsOf(i, color)))

ComputePcs(i, color) ==
    /\ Runs(i, color, "Pcs", {"zmodel"})
    /\ Expandable(ZernikeOrder(input.zcs))
    /\ Stores(<<"zmodel", "PC">>, PcsBody(ZernikeOrder(input.zcs), input.memory, value,
                                         RegionsOf(i, color)))

ComputeEpts(i, color) ==
    /\ Runs(i, color, "Epts", {"a_coords"})
    /\ Stores(<<"a_coords", "EPT">>, EptsBody(value, RegionsOf(i, color)))

ComputeAifs(i, color) ==
    /\ Runs(i, color, "Aifs", {"aif"})
    /\ Stores(Value("aif"), AifsBody(value, RegionsOf(i, color)))

TransformInPlace(i, color) ==
    LET col == Value(tasks[i].step.on)
    IN /\ Runs(i, color, "Fft", {"aif", "cf"})
       /\ Stores(col, FftBody(col, value, RegionsOf(i, color)))

ComputeATerm(i, color) ==
    /\ Runs(i, color, "Cfs", {"a"})
    /\ Stores(Value("a"), ATermBody(value, RegionsOf(i, color)))

MultiplyTerm(i, color) ==
    LET step == tasks[i].step
    IN /\ \/ Runs(i, color, "Overwrite", {"a"})
          \/ Runs(i, color, "Multiply", {"w", "ps"})
       /\ Stores(Product,
                 MultiplyBody(step.on, step.do = "Multiply", value, RegionsOf(i, color)))

\* What a table holds: the makings of its elements, and whether some are missing
Contents(table) ==
    LET column == value[Value(table)]
    IN {IF pt \in DOMAIN column /\ column[pt] # Garbage THEN column[pt].of ELSE Garbage :
            pt \in Box(space[Value(table)].size)}

ShowValues(i, color) ==
    LET title == tasks[i].step.on
    IN /\ Runs(i, color, "Show", {"PSTerm", "WTerm", "ATerm", "Pre-FFT CF", "Post-FFT CF"})
       /\ shown' = Added(shown, [t \in {title} |-> Contents(TableShown(t))])
       /\ UNCHANGED value

DestroyTable(i, color) ==
    /\ Runs(i, color, "Destroy", DOMAIN AxesOf)
    /\ value' = [col \in DOMAIN value \ ColumnsOf(tasks[i].step.on) |-> value[col]]
    /\ UNCHANGED shown

\* The task of the driver is over and everything it launched has run.
Ended ==
    /\ next > Len(Program) /\ tasks = <<>>
    /\ UNCHANGED vars

Next ==
    \/ Ended
    \/ CreateTable
    \/ InitZernike
    \/ LaunchTask
    \/ \E i \in DOMAIN tasks : \E color \in tasks[i].left :
          \/ InitIndexColumns(i, color)
          \/ ComputeCoordinates(i, color)
          \/ ComputePSTerm(i, color)
          \/ ComputeWTerm(i, color)
          \/ ComputePcs(i, color)
          \/ ComputeEpts(i, color)
          \/ ComputeAifs(i, color)
          \/ TransformInPlace(i, color)
          \/ ComputeATerm(i, color)
          \/ MultiplyTerm(i, color)
          \/ ShowValues(i, color)
          \/ DestroyTable(i, color)

Spec == Init /\ [][Next]_vars

---------------------------------------------------------------------------

Pending(do, on) == \E i \in DOMAIN tasks : tasks[i].step.do = do /\ tasks[i].step.on = on

Issued(step) == \E k \in 1 .. next - 1 : Program[k] = step

\* What is left to do is not this.
Done(do, on) == Issued(Step(do, on)) /\ ~Pending(do, on)

Exists(table) == Value(table) \in DOMAIN value

\* The position at which a term has an index value of the product; a term with
\* an axis that the product lacks is used at its first value.
At(term, axis, i) ==
    IF axis \notin ToSet(AxesOf["cf"]) THEN 0
    ELSE LET e == CHOOSE e \in DOMAIN AxesOf["cf"] : AxesOf["cf"][e] = axis
         IN Position(value[<<term, axis>>], value[<<"cf", axis>>][<<i[e]>>])

\* The product as the table means it: at every index and every cell, one
\* factor of each term that reaches the cell, taken at the same index values
\* and at the same distance from the centre of the grid.
Factors(i, xy) ==
    LET margin(term) == (GridSize("cf") - GridSize(term)) \div 2
        reached(term) == \A d \in DOMAIN xy : xy[d] - margin(term) \in 0 .. GridSize(term) - 1
        factor(term) ==
            value[Value(term)][[d \in DOMAIN AxesOf[term] |-> At(term, AxesOf[term][d], i)]
                               \o [d \in DOMAIN xy |-> xy[d] - margin(term)]]
    IN FlattenSeq([k \in DOMAIN Terms |->
                     IF reached(Terms[k]) THEN <<factor(Terms[k])>> ELSE <<>>])

\* create_and_fill, whatever ran before it in whatever order, leaves the
\* product of the three terms: the order of the axes, which differs between the
\* tables, the axes a table lacks and the sizes of the grids are reconciled.  It
\* is printed complete, once before its transform and once after it.
ProductOfTerms ==
    /\ (/\ Done("Create", "cf") /\ Done("Multiply", "ps") /\ ~Done("Fft", "cf")
        /\ \A table \in ToSet(Terms) \cup {"cf"} : Exists(table)) =>
           \A i \in Box(SubSeq(space[Product].size, 1, Len(AxesOf["cf"]))) :
               \A xy \in Box(<<GridSize("cf"), GridSize("cf")>>) :
                   /\ i \o xy \in DOMAIN value[Product]
                   /\ value[Product][i \o xy] = Element(Factors(i, xy), xy)
    /\ "Pre-FFT CF" \in DOMAIN shown => Garbage \notin shown["Pre-FFT CF"]
    /\ "Post-FFT CF" \in DOMAIN shown =>
          /\ Garbage \notin shown["Post-FFT CF"]
          /\ "Pre-FFT CF" \in DOMAIN shown
          /\ UNION shown["Post-FFT CF"] = shown["Pre-FFT CF"]

\* The linear combination of Zernike polynomials that coefficients stand for.
Combination(zcs) ==
    UNION {LET terms == TermsOf(zc.m, zc.n)
           IN {<<terms[t][1], terms[t][2], zc.value, terms[t][3]>> : t \in DOMAIN terms} :
           zc \in zcs}

\* The frequency of a cell of a grid of n * n cells with frequency 0 in its middle
Centred(xy, n) == [d \in DOMAIN xy |-> (xy[d] - n \div 2) % n]

\* The sets of coefficients that may serve for a frequency: those of a frequency
\* within the tolerance or of one that no other is nearer than.
Serving(blc, sto, frq) ==
    LET zcs == {zc \in input.zcs : zc.blc = blc /\ zc.sto = sto}
        good(f) == \/ Distance(frq, f) * Tolerance <= frq
                   \/ \A zc \in zcs : Distance(frq, f) <= Distance(frq, zc.frq)
    IN IF zcs = {} THEN {{}}
       ELSE {{zc \in zcs : zc.frq = f} : f \in {f \in {zc.frq : zc \in zcs} : good(f)}}

\* compute_cfs of an ATermTable, under any partition of its rows, gives every
\* Mueller element of every class, angle and frequency the product of the
\* illumination functions of its two Stokes values.  Each of these is the
\* transform of a whole grid, frequency 0 in the middle of grids of odd size, and
\* the grid is of the combination of polynomials whose coefficients are those of
\* a frequency that may serve.  All of it where new memory holds zeros, which
\* expand relies on; whatever it holds, the term is printed complete.
MuellerElements ==
    /\ (/\ Done("Cfs", "a") /\ Exists("a")
        /\ input.memory = "zero" /\ input.grid.a % 2 = 1) =>
           \A l \in Box(space[Value("a")].size) :
               LET xy == SubSeq(l, 6, 7)
                   given(zcs) ==
                       Element({<<Polynomial("zero", Combination(zcs)), input.pas[l[2] + 1]>>},
                               Centred(xy, input.grid.a))
                   serving(sto) == Serving(input.blcs[l[1] + 1], sto, input.frqs[l[3] + 1])
               IN /\ l \in DOMAIN value[Value("a")]
                  /\ \E left \in serving(input.out[l[4] + 1]), right \in serving(input.in[l[5] + 1]) :
                        value[Value("a")][l] = Element(<<given(left), given(right)>>, xy)
    /\ "ATerm" \in DOMAIN shown => Garbage \notin shown["ATerm"]

\* Arguments that can serve: grids, a value on every axis, cuts of axes
\* of the rows, each axis once, and none of Stokes values, for which
\* ATermTable::compute_cfs has a course of its own (map_mueller_to_stokes) that
\* is not modelled.  A cut of classes or frequencies, if there is any:
\* the coefficients have no other axis of the rows, and what cannot be narrowed
\* to them is used whole, so that every piece of the launch writes everything.
InputsServe ==
    \A in \in Inputs :
        LET Cut(list, i) == list[i][1]
        IN /\ \A table \in {"a", "w", "ps"} : in.grid[table] \in Nat \ {0}
           /\ \A list \in {in.scales, in.ws, in.blcs, in.pas, in.frqs, in.out, in.in} :
                 list \in Seq(Int) /\ list # <<>>
           /\ in.cut \in Seq({"BASELINE_CLASS", "PARALLACTIC_ANGLE", "FREQUENCY"} \X Int)
           /\ in.wcut \in Seq({"W", "X", "Y"} \X Int)
           /\ \A list \in {in.cut, in.wcut} : \A i, j \in DOMAIN list :
                 i # j => Cut(list, i) # Cut(list, j)
           /\ in.cut # <<>> =>
                 \E i \in DOMAIN in.cut : Cut(in.cut, i) \in {"BASELINE_CLASS", "FREQUENCY"}

\* Every partition that a launch uses is what the runtime was told of it,
\* although the number of colors is read at the wrong place; pieces of a column
\* that is written are apart, and together they are all of it.
PartitionsTrue ==
    \A i \in DOMAIN tasks :
        LET partition == tasks[i].partition
        IN IsValid(partition) =>
             \A col \in Uses(tasks[i]) :
                LET here == ProjectOnto(partition, space[col])
                IN /\ IsValid(here)
                   /\ DeclaredTruly(here, space[col], Strays)
                   /\ Covers(here, space[col])
                   /\ col \in Writes(tasks[i].step) => Apart(here, space[col])

\* What is printed of a term is the term: complete, of all parameters that it
\* was made for and no others, and later never anything else, although the
\* driver launches the print without waiting for the pieces that compute the
\* term, and goes on to destroy the grids and the table without waiting for the
\* print.
TermsShown ==
    /\ "PSTerm" \in DOMAIN shown => shown["PSTerm"] = ToSet(input.scales)
    /\ "WTerm" \in DOMAIN shown => shown["WTerm"] = ToSet(input.ws)
    /\ "ATerm" \in DOMAIN shown /\ Exists("a") => shown["ATerm"] = Contents("a")

==============================================================================
