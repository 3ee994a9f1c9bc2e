# A verification of hyperion

This directory holds TLA+ models of hyperion (the `hyperion/` tree of this
repository), the TLC configurations that check them on small instances, and
theorems that TLAPS proves for every instance. Paths below are relative to
`src/hyperion/`.

    tlc -config TableColumns.cfg MCTableColumns.tla     # one run
    tlapm Table_proofs.tla                        # one set of proofs

`PROJECT.json` lists the runs, the code behind every definition ("map"), what
can go wrong in this code that a test would hardly reach ("hazards"), the places
where a run shows code and comment to disagree ("findings"), the theorems and,
for every property of a run, a change of the code that it detects ("mutants").

## 1. Inventory of the system

hyperion stores MeasurementSets, tables of radio-astronomical data, in Legion
regions, and computes on them with Legion tasks. A program is a tree of tasks;
each declares the regions and fields it uses and how, the runtime orders tasks
that conflict and runs all others in any order. Data leave a task through
regions and futures only. What can go wrong is therefore less a race on a
variable than a wrong declaration, a wrong order among what is *not* declared,
and the life of regions, fields, partitions, attachments and accessors, which
the code manages by hand.

| Component | State | Operations | What makes it correct | Hard because |
|---|---|---|---|---|
| **Table columns** (`Table.cc`, `Column.h`, `TableField.h`) | map from names to columns (ColumnSpace, region, FieldID, Keywords, MeasRef); the index ColumnSpace | `create`, `add_columns`, `remove_columns`, `destroy` | no two columns in one field; a region lives exactly as long as its columns | regions are shared, FieldIDs are reused, everything is freed by hand |
| **PhysicalTable** (`PhysicalTable.cc`, `PhysicalColumn.h`) | a second map of the same columns, their mapped instances, what is attached to a file | `attach_columns`, `detach_columns`, `add_columns`, `remove_columns` | the two maps never pull storage from under each other; book-keeping agrees with the runtime's attachments | columns share attachments; two owners of one storage |
| **Requirements** (`Table::requirements`, `PhysicalTable::requirements`, `PhysicalTable::create`, `Table::legion_deserialize`) | a flat list of region requirements, a descriptor, the partitions made on the way | send, receive, destroy the partitions | each column receives its own region, field, mode and partition; a partition lives as long as the launch | only the order says whose a requirement is |
| **Column index** (`Column::create_index`, `acc_field_redop` in `utility.h`) | lists of rows by value | a task per block, a fold of their results | the rows of each value, sorted, whatever the order of the fold | blocks end in any order; `combine` is written with iterators |
| **Reindexing** (`ColumnSpace::reindexed`, `PhysicalTable::reindexed`) | the row map, the new space, copied values | a task per point, image partition, copies | every value at the point that its index values say | point tasks share one region without exclusive access |
| **Partitions** (`ColumnSpacePartition.cc`, `Column::narrow_partition`) | partitions by axes and blocks | create, project onto another ColumnSpace, narrow | blocks cover a space; the kind the runtime is told is true | index arithmetic over several axes |
| **IndexTree** (`IndexTree.h`, `tree_index_space.cc`) | run-length trees of indexes | merge, grow, prune, serialize, enumerate | tree and set of points agree | recursive merge with many cases |
| **Keywords, MeasRef** (`Keywords.cc`, `MeasRef.cc`, accessors in `PhysicalColumn.h`) | small regions with values and trees of measure references | create, clone, write, read, compare, destroy | what is read is what was written, for the row it was written for | trees flattened into arrays, two trees that must agree |
| **HDF5** (`hdf5.cc`, `ms2h5.cc`) | a file of groups, datasets and attributes | write, open, attach, export | a table that is read equals the one written; other people's files are left alone | many steps, each by name or by place |
| **TableReadTask, builders** (`TableReadTask.cc`, `TableBuilder.h`, `ColumnBuilder.h`) | casacore tables, builders of columns | scan cells, read a table in blocks of rows | every cell once, at its place | ragged and missing cells |
| **CF tables** (`synthesis/CF*`, `*Term*`, `ATerm*`, `Zernike*`, `cfcompute/`) | tables of convolution functions and their factors | constructors, index launches over partitions, products, transforms | each value is the product of its factors | pieces of many launches at once, seven-dimensional index arithmetic, tables of coefficients |
| **FFT** (`synthesis/FFT.h`, `FFT.cc`) | FFTW's planner, its mutex, plans in futures | `in_place` and its sub-tasks | planning is exclusive, plans live long enough, arrays end as asked | concurrent tasks, a spin lock with a time-out, process-wide limits |
| **Test log** (`testing/`) | a log region, an abort state | record, hand to sub-tasks, abort, report | results in order, nothing but skips after an abort, all reported | several recorders and tasks over one region |
| **TableMapper** (`TableMapper.cc`) | cached mappings of tasks | `map_task` | a cached mapping is still valid when used | the runtime frees instances at will |
| **gridder** (`gridder/`) | arguments, the tables of a run | configure, open, classify, clean up | command line overrides file; all is released | the order of clean-up |
| **Accessors, enumerations, C interface** | none | typed views | - | - |

How they interact. `ms2h5` scans casacore tables with the builders, makes Tables
from the IndexTrees, writes their layout to HDF5 and reads blocks of rows into
the attached datasets. `gridder` opens Tables from HDF5, attaches them (Table ->
PhysicalTable), passes them to tasks as requirements and gets Tables back in
futures, adds columns through the PhysicalTable, detaches, and destroys.
Reindexing uses the column index, which the runtime folds; the new columns carry
clones of Keywords and MeasRefs. `cfcompute` makes CF tables, which are Tables,
computes them with index launches over partitions of their ColumnSpaces, and
transforms their columns in place with the FFT tasks.

## 2. The modules

| Module | Models | Run |
|---|---|---|
| `ColumnForest` | storage below tables: regions, fields, ColumnSpaces, keyword regions; the allocation and release that `Table` and `PhysicalTable` share | (extended by the next two) |
| `TableStorage`, `TableColumns` | what a Table's columns rely on, and a Table from `create` to `destroy` | `table_columns` |
| `TableSession` | a Table and its PhysicalTable over one `ColumnForest` | `table_session` |
| `Requirements` | sending and receiving a table, and its partitions | `requirements` |
| `IndexColumn` | `create_index` and `combine` | `index_column` |
| `RowMapping` | `compute_row_mapping_task`, the new space and the copies | `row_mapping` |
| `IndexTree` | run-length trees and what is computed from them | (extended by the next two) |
| `MeasRefTree`, `KeywordSet` | measure references in regions, keywords | (used by the next) |
| `ColumnContent`, `ColumnMeta` | what a column carries besides its values, and its life | `column_meta` |
| `Hdf5File`, `MsBuilder` | the layout of a file, the builders of tables | (used by the next) |
| `Conversion`, `MsToHdf5` | what the program `ms2h5` has read and written, the program, and clients of its file | `ms_to_hdf5` |
| `TestReport`, `TestLog` | what a test log promises, and the recorders, tasks and reductions that keep it | `test_log` |
| `SpacePartition`, `CfTable`, `CfTerms`, `Zernike`, `ATerm`, `CfProduct`, `CfCompute` | partitions; the tables, tasks and launches of `cfcompute` | `cf_compute` |
| `ZernikeSeries` | the expansion of a series of Zernike coefficients | `zernike_tables` |
| `FftPlan` | transforms, mutex, planner, destroyer | `fft_plan`, `fft_mutex` |
| `Lists` | lists in the order of a walk, and what a filter keeps of a list | (extended by `IndexColumn`, `RowMapping`) |
| `Table_proofs` (of `TableSession`, `TableColumns`, `ColumnMeta`, `MsToHdf5`), `Requirements_proofs`, `IndexColumn_proofs`, `RowMapping_proofs`, `TestLog_proofs`, `FftPlan_proofs`, `CfCompute_proofs` | theorems | - |
| `Lemmas` | least and greatest numbers, lists, sets listed in order, loops, for the proofs | - |

`MC*` modules give the constants their values. Definitions commented "a mutant"
are not part of the model: each is the form a definition takes under a plausible
bug.

### ColumnForest and TableColumns

`columns` is `Table::m_columns`. The forest below it has the live `regions`, the
ColumnSpace each was made over (`home`), its allocated `fields`, the ColumnSpaces
that exist (`spaces`) and the columns with live `keywords`. `AllocateColumns` is
the part that `Table::add_columns` and `PhysicalTable::add_columns` share
(`Table.cc:1190-1334`); a call whose checks fail changes nothing, so the checks
are its guard. `FreeColumns` is their common `remove_columns`: fields are freed,
and a region left without fields is destroyed with its ColumnSpace. Regions are
identities that are never used twice, as in Legion. A ColumnSpace is a model
value; `AxesOf`, `SameUid` and `SameRows` say of it what `is_conformant` looks
at. In the code the row domains are compared point by point; here that
comparison is the relation `SameRows`. `remove_all` in the static
`remove_columns` is computed from the removed names alone, so the guard it
stands for is not in the model.

### TableSession

The order of `gridder_task`: open, attach, then any sequence of attaching,
detaching and adding, then clean-up. `table` and `physical` are the two maps
`m_columns`; `values` is `m_values`, `attached` is `m_attached`, and `files` is
what the runtime has attached. Columns of the same region and mode are attached
as one instance (`Group`). Three facts of the code shape the model:

- `PhysicalTable::add_columns` passes the values region of the index column
  where its metadata is meant (`PhysicalTable.cc:656-657`), so a ColumnSpace that
  is not in use yet ends the program: `AddColumns` only joins ColumnSpaces in use;
- `PhysicalTable::remove_columns` drops *all* columns, keywords and attachment
  entries (`PhysicalTable.cc:794-805`), so the later `detach_columns` of the
  gridder's clean-up finds nothing to detach and `files` keeps its instances;
- `detach_columns` clears the `m_values` of the named columns only.

### Requirements

The sender is `Collect` and `Gather` (the two loops over the column
requirements), `Begin` and `Emit`; the receivers are `Create` (a PhysicalTable in
the launched task) and `Deserialize` (a Table from a future), which walk the
descriptor with their own sets of regions already seen. Columns are numbered in
iteration order, and since every assignment of regions, fields and extras to
numbers is an initial state, so is every iteration order. `Abort` is a request
that the code refuses or that throws. Over a table partition, the partition is
projected onto every ColumnSpace that has no partition on record (`PartFor`); a
Table returns those it made, a PhysicalTable destroys them at once (`Keeps`), and
`Clean` is the caller that destroys what was returned after the launch. `live`
is what exists. Projection IDs are left out (no code sets them), as are virtual
columns.

### IndexColumn

A block task lists the rows of its block (`Fold` takes one such list); `Combine`
is one turn of the loop of `acc_field_redop::combine`, with the iterator `l` as
an offset into the list. Insertion sets `l` to `1 - l`, because the code saves
the distance with its sign turned (`utility.h:907`). If `l` is negative the code
reads before its vector: undefined behaviour, modelled as any outcome of the
comparison (`ReadBeforeBegin`) and remembered in `wild`. A write before the
vector is not followed further. `IndexExact` and `RowsConserved` are about
executions without such a read.

### RowMapping

`MapRow(p)` is one write of the task at point `p`; the tasks interleave freely.
`MakeSpace` is the image partition, which needs them all; `CopyRow` is a copy
task. `rows` in a shape is the order in which `create_index` lists the rows,
first axis fastest, while `combine` and `std::set_intersection` compare points
lexicographically; section 4 says where these orders clash.

### IndexTree, MeasRefTree, KeywordSet, ColumnContent, ColumnMeta

A tree is a sequence of blocks of equal sub-trees in the canonical form that
`IndexTree`'s constructors keep. `MeasRefTree` flattens a list of measure
references into the arrays of a MeasRef's three regions and back
(`CreateRefs`, `MakeRefs`), with the component codes on the way to a measure as
its place, filled up with zeros; `EquivOutcomes` are the answers of `equiv`,
several where it compares elements that were never written. `KeywordSet` has a
field per keyword. `ColumnContent` has the state of a column that carries both,
the accessors of `PhysicalColumn.h` that go by the reference of a row, and what
they rely on; `ColumnMeta` is its life: created, cloned by reindexing, written,
destroyed, its measures written and read. What is done to a MeasRef's regions is
a constant operator there (`RegionsOf`, `CopyOf`, `RefsOf` ...), which
`ColumnMeta.cfg` gives the definition of `MeasRefTree`: these are recursive, and
theorems about the column can be proved without knowing what a tree is.
`DescsAssumption` says that a set of keywords has one of a name, as the records
and groups they come from do.

### Hdf5File, MsBuilder, Conversion, MsToHdf5

An HDF5 file is a tree of records with the groups, links, datasets and attributes
that `hdf5.cc` writes. `MsBuilder` has the builders that scan cells row by row and
grow an index tree for each column; columns with equal trees become one
ColumnSpace. `MsToHdf5` is the program: `Start` (arguments), `ScanRow` and
`MakeTable` (a task per table), `CreateFile`, `WriteNext` (one table at a time),
`AttachColumns`, `ReadBlock` (a task per block of rows, in any order), `Finish`.
`Intrude` is somebody else who makes a file at the output path at any moment
before it is created. Clients then open groups, write keywords, export selections
of columns to new groups and open these (`OpenFromFile`, `SetKeyword`, `Export`,
`OpenExport`). `Conversion` declares the state and, as constant operators, what the
program leaves to the builders and the layout of the file; `MsToHdf5.cfg` gives
these the definitions of `MsBuilder` and `Hdf5File`, and `MCMsToHdf5`, which
extends all of them, states what they promise together. `MeasuresAssumption` there
names what casacore's classes guarantee. casacore and the HDF5 library are
external.

### TestReport, TestLog

`TestReport` is the abstract specification: results that stay, skipped after one
that aborts, all of them in the one report. `TestLog` has the region of entries
(`log`), the abort state, and for each task its part of the log, the position of
its recorder, what it believes of the abort (`aborted`), and the reduction
instance it writes to. `Start` gives a task a reduction instance that is new or
one that an earlier task reduced into, as the mapper may; `Append1` is
`TestRecorder::append`; `ExpectValue` and `ExpectException` evaluate the
expressions of `TestExpression.h` with what they skip. Sub-tasks get the UNKNOWN
rest in equal parts (`LaunchOnParts`) or the whole log one after the other
(`LaunchOnLog`, `Resume`). `Careful` says that a sub-task that
is given the whole log updates the place of its recorder first, as the suite does
when it resumes (`tests/utTable.cc:623`); section 4 says what happens without.

### The convolution functions

`CfCompute` runs the program of `cfcompute_task` step by step: the driver only
launches, and the runtime runs a piece of a launch when no piece of an earlier
launch that it conflicts with is left (`Ready`, `Conflict`: Legion's rule for
read-only and writing requirements, which is an assumption here). `Window` is how
far the driver may be ahead. A column is a function from the points that were
written; the body of a task is what it writes, computed from the rectangles it
was given and the contents of what it reads (`CfTerms`, `ATerm`, `CfProduct`), so
a read of an element that is not in the task's piece, or was not written, shows.
The value of an element is what it was computed from, kept symbolically: a sum,
product or transform is the set or sequence of its parts. `SpacePartition` has
`ColumnSpacePartition` and its projection; `CfTable` the index arithmetic of
`CFTableBase.h`; `Zernike` all terms of the polynomials up to order 10, the
indexing of a series and its expansion. Weights are left out: the tasks of the PS
and W terms write them beside the values, those of the A term never do. So is the
course that `ATermTable::compute_cfs` takes for a partition that cuts the Stokes
axes (`map_mueller_to_stokes`), and with it such partitions; no driver here
passes one. Two things of memory are nondeterministic: what a new
instance holds (`memory` of the input) and what is read past the end of a
rectangle (`Strays`).

### FftPlan

Each transform has two workers, the chain of sub-tasks on its array and the
destroyer, which only the future of the execution orders. `Mutex::lock` tests
the flag `m_count` times; whether the tests outlast the holder's section is up
to the scheduler, so `RunOut` is always possible for a worker that finds the flag
set, and it sets `exhausted`. FFTW is external: its planner finds a plan if there
is wisdom for it, and anything if two workers are in it at once. The arrays of a
region and their rotation are in `ATerm`; the time a worker spends is not
modelled.

## 3. What the runs show

| Run | Instance | Shows |
|---|---|---|
| `table_columns` | 3 names, 2 FieldIDs, 3 regions, 5 ColumnSpaces of which two clash and one does not conform, at most 2 columns a call | no sequence of calls loses, shares or leaks storage |
| `table_session` | 2 file columns, 2 added ones, 3 FieldIDs, 2 regions, 2 modes | a PhysicalTable never takes storage from its Table; attachments agree with the runtime's and never overlap |
| `requirements` | 3 columns in at most 2 regions, with and without extras and reference columns; requests to read, to write, with another metadata mode and with a partition of the column's own; both senders; no partition, one of the index column, one of another ColumnSpace | each column receives its own; the list ends where the receiver does; a Table's partitions live until the caller destroys them, once; every table arrives |
| `index_column` | 6 rows, 3 blocks, 2 values | the index is exact for every order; rows are conserved at every step; the fold ends |
| `row_mapping` | 3 rows by 2 columns with and without a row axis; 2 by 2 rows, 1 column; cells of 1 or 2 elements | the row map is the one meant, is written once per row, its image is disjoint and complete, and values arrive |
| `column_meta` | 8 lists of references up to three levels deep, with offsets and frames; 2 lists of keywords; a column of 2 rows and a clone, 4 operations | references and keywords come back as they were made, through clones; `equiv` tells different references apart; measures are read with the reference of their row |
| `ms_to_hdf5` | a main table of 3 rows with ragged, fixed and measured columns, a missing cell and a column the program does not know; a sub-table of 2 rows with equal trees over different axes; an empty sub-table; 6 selections; blocks of 2 rows; 2 exports | every cell is in its place, once, for every order; a file reads back as the tables; exports read back as what was exported; a foreign file is never written |
| `test_log` | 3 entries, a suite and 2 sub-tasks | the log implements `TestReport`; the abort state is what the entries say; a suite is reported |
| `cf_compute` | 5 inputs: grids of 1 to 3 cells a side, the terms' grids of equal and different size; 1 to 3 frequencies, 1 or 2 angles, W planes, scales, Stokes values; coefficients near, far, missing; 4 different partitions or none; memory with zeros or anything | the product is that of its terms, the Mueller elements those of their illumination functions, partitions are what the runtime is told, a print of a term shows the whole term, the product is printed complete and as it was before and after its transform |
| `zernike_tables` | every polynomial of order up to 10 | *violation*: a polynomial of the table does not satisfy Zernike's equation |
| `fft_plan` | 2 transforms, 4 kinds of request | exclusive while patient, limits honoured, arrays as asked, all released, all finish |
| `fft_mutex` | the same | *violation*: two workers in the planner |

Why the bounds are enough. *Storage*: a fault needs a region to be shared, emptied
and replaced, which takes two columns in a region, a third that comes later, two
FieldIDs for a clash, and a third region after two are used up. *Sessions*: two
file columns are the least that share an attachment, two added columns the least
that free a shared region one after the other. *Requirements*: three columns are
the least with two in one region and one elsewhere between them, in any order.
*Folding*: three blocks are the least for which a list has rows before, between
and after those that are folded in, and the iterator needs an insertion at
offset two. *Row mapping*: three rows are the least for which some are ambiguous
and one is not, and two by two for a point above ROW with company. *References*:
a frame within an offset is the least depth at which the filling with zeros and
the order of the places matter. *ms2h5*: three rows in blocks of two have a full
and a short block; two sub-tables are the least for which the list of paths can
be cut, and two exports the least for a round over a round. *Test log*: three
entries are the least that two sub-tasks and the suite share one each, or that
one task's abort leaves a rest for another. *cfcompute*: grids of three cells
have a middle and a border; two values on an axis that is partitioned in blocks
of one give two pieces of every launch; four pending launches cover the longest
chain of tables that depend on each other. *FFT*: with two transforms there are
four workers, so a lock released by the wrong worker is taken by a third.

Bounds named in the modules: `MaxNew` (columns added by one call), `Window`
(pending launches), `MaxOps` (operations on the metadata of a column), `MaxExports`,
`RowBlock` (rows that a task reads), `Length` (entries of a log).

Symmetry is used where values are only compared for equality: names, FieldIDs,
regions and modes in the two safety runs of tables. No liveness run has it.

Deadlock is checked in `cf_compute`, where the end of the program is a step of
its own (`Ended`): a piece that waits for itself would show. In the other runs it
is off, since what they model stops: a destroyed table, a finished fold, a copied
space, an arrived table, a closed file, a printed report, finished transforms.

### Fairness

Legion runs every task whose preconditions hold, and a running task goes on.
`IndexColumn` and `Requirements` are fair to `Next` as a whole: one fold and one
sequential function. `TestLog` is fair to the start and the end of each task, to
the suite's resumption and to the report, not to the recording of results: a
suite may record less than its log could take. `FftPlan` is fair to every worker
by itself, weakly, since each is a task with a thread of its own while it runs. A
worker that waits for the lock is not promised the lock by weak fairness, and
need not be: it may run out of its tests, in which case it goes on without, which
is what the code does. Tables, sessions, files and `cfcompute` have no liveness
properties: their clients may stop.

## 4. Where code and intention disagree

Two disagreements are runs of their own ("findings" in `PROJECT.json`): the lock
that returns without the lock (`synthesis/FFT.h:49`), and the sign of two terms of
`Zernike<-2, 6>` (`synthesis/Zernike.h:257`; after that come `Zernike<-2, 8>`,
line 466, and `Zernike<7, 9>`, line 706).

The properties below are stated in the modules, or are checked under a
condition, because TLC refutes them as they are. To see one, add it to the run's
configuration, or take its condition away.

| Statement | Refuted because |
|---|---|
| `IndexColumnsKept` (`TableColumns`): a table that has columns keeps its index columns, as `Table.cc:1404` wants | `remove_all` is always true (`Table.cc:1410`) |
| `DetachedTogether` (`TableSession`): no column keeps a detached PhysicalRegion | only named columns lose theirs (`PhysicalTable.cc:1539`) |
| `PartitionsHandedOver` (`Requirements`) without `Keeps` | a PhysicalTable destroys the partitions that the launch is about to name (`PhysicalTable.cc:467`); `Table.h:189` says the caller does |
| `ColumnsGetTheirOwn` (`Requirements`) without `Unmixed` | a column without a partition takes the one that was given for another column of its ColumnSpace (`Table.cc:675`) |
| `IteratorRecreated` (`IndexColumn`): the iterator stays in its vector | the offset is saved with the wrong sign (`utility.h:907`) |
| `AllowRowsIsSafe` (`RowMapping`): `allow_rows` loses no value (`Table.h:307`) | tasks compare one axis too few (`ColumnSpace.cc:633`) |
| `EmptyIfAmbiguous` (`RowMapping`): nothing is returned when rows are ambiguous (`Table.h:309`) | only the ambiguous rows are dropped (`ColumnSpace.cc:644`) |
| `RowMapExact` (`RowMapping`) with two index columns *and* an axis above ROW | rows (0,1) and (1,0) are listed in another order than they are compared in, and a common row is missed (`Column.cc:179`) |
| `OwnAxes` (`MCMsToHdf5`): the ColumnSpace of a column that was built has the column's axes | columns are grouped by index tree alone (`TableBuilder.h:160`): POSITION and OFFSET have equal trees, and one gets the axes of the other |
| `SpacesReadBack` (`MCMsToHdf5`): a ColumnSpace is written with its own axes | all are written with those of the first column (`hdf5.cc:1138`), so a table of several ColumnSpaces, as ms2h5 makes them, cannot be opened again |
| `KeepsPromise`, `AbortToldByEntries` (`TestLog`) without `Careful` | a recorder begins at the first entry; of the two sub-tasks of `table_test_suite` that get the whole log, the second does not update its place and writes over the first two results of the first (`tests/utTable.cc:399`) |
| `PartitionsTrue` (`CfCompute`) with a cut of PARALLACTIC_ANGLE alone | nothing of it is left for the coefficients, and the whole partition takes its place (`value_or`, `ATermTable.cc:276`): every piece of `compute_pcs` writes all of them |
| `MuellerElements` (`CfCompute`) with two baseline classes | `multidimensional_index` does not reduce the rank after the first axis (`CFTableBase.h:285`) |
| `MuellerElements` with Stokes values in that differ from those out | STOKES_IN is read from the column STOKES_OUT (`ATermTable.h:163`) |
| `MuellerElements` with memory that does not start with zeros | `expand` adds to write-only elements (`ATermZernikeModel.h:237`) |

Also modelled as they are, without a property about them: a table whose two
equal index trees have different axes ends the program (`DistinctAxes` in
`MakeTable`); `write_table` of no columns writes nothing; a basis of order 8
cannot be expanded since `Zernike<8, 8>` declares order 9 (`DeclaredOrder`);
`create` of references of different depth throws (`MayCreate`).

## 5. What is proved

`Table_proofs`, second part, about the instance `Life` of `TableColumns`, for
all sets of names, ColumnSpaces, regions and FieldIDs
and any `MaxNew`, from `ForestAssumption` and `TableAssumption`: `LifeTypeCorrect`,
`ColumnsStayBacked`, `StorageStaysSeparate`, `NothingIsOrphaned`. None of these invariants is inductive alone. That freeing
columns leaves the others backed needs that no two columns share a field; that a
fresh region is really empty needs that nothing is orphaned; that a column joins
the right region needs that its ColumnSpace has one. `IInv` is their conjunction,
with the fact that only a live table has columns (`LifeInv` in the proofs). The
lemmas are about the two halves of the forest: `Allocation` (with `Placement`,
where a ColumnSpace's columns go) and `Removal`.

`Table_proofs`, first part, for all sets as above and any set of modes, from
`ForestAssumption` and `SessionAssumption`: `TableStaysWhole`,
`PhysicalStaysBacked`, `AttachedStaysHeld`, `AttachmentsStayDisjoint`. The two
handles share storage and know nothing of each other, so the invariant ties them:
while the PhysicalTable is in use its map extends the Table's (`Extends`), and no
two of its columns share a field. The columns that `remove_columns` frees are
therefore no fields of the Table's columns, though it looks for emptied regions
among all of them (`Removing`). Attachments are tied to columns by `Owned`: a
field that is attached belongs to a column that holds the attachment, so columns
that are not attached bring fields that no attachment has (`Attaching`).

`Table_proofs`, third part, about the instance `Meta` of `ColumnMeta`, for any number
of MeasRefs, rows, references and operations, and whatever `RegionsOf` and its
companions are: `KeywordsHold` and `MeasuresHold`. A list of keywords has one of a
name (`Listing`), so `find_keyword`, which takes the first field, and `to_map`,
which ends with the last, agree, and a clone, made again from types and then given
the values, is the same list (`Cloned`). For the measures the invariant says that
all MeasRefs of a column are of the same references, that each row's code is of
one of them, and that a value is as far from its quantity as the origin of the
reference that the row's code meant when it was written (`MeasuresInv`): so rows may
be written through one clone, get other codes, and be read through another. The
theorem has the hypothesis `[]RefsMadeBack`: that references and codes come back
from the regions of a MeasRef, which is recursion over trees and is what TLC checks
in the same run.

`Table_proofs`, fourth part, about the instance `Copy` of `MsToHdf5`, for any
MeasurementSet, any selection and size of blocks: `ForeignStays` and `ValuesArrive`.
The first needs that the program is past `CreateFile` only with a file of its own
(`FileInv`), which `H5F_ACC_EXCL` gives, not the check of the arguments. The second
ties three lists that the code keeps apart: the names of the tables, the groups
written so far, and the paths that come back from `create_h5_task`, where only the
position says which table a map of paths is of (`PathsInv`). At any time the
datasets of a column hold the cells of exactly the points whose block of rows is not
left to be read (`DataInv`), so no order of the tasks loses a cell or writes one
twice. Its hypothesis is `[]PointsAreCells`: each Table has a column, the points of
a column are as many as its cells and are taken for them one by one when a task
reads with the rank of the first row of its block, and its group has a dataset for
each column, of an extent that the points fit in. That is what the builders and the layout
make of a table, by recursion over trees; TLC checks it as a part of
`TreesStandForCells`. Without a column in some table the map of paths would be cut
there (`Travelled`), and the tables after it would not be read.

`Requirements_proofs`, for any number of columns, any tables and calls that satisfy
`RequirementsAssumption`, in two parts.

The first, `EachHandedOver`, is about the partitions of a launch of a Table. They
are the places of the multimap `partitions` that are told apart: the partition
made for the i-th place is the i-th one of its region (`PlacesTold`), so none is
returned twice and none is the caller's own. While the list is walked, what is
alive is what was made (`MadeAreLive`), afterwards what the caller still holds
(`HeldAreLive`); the requirements take their partitions from the record or from
the caller, and every selected column has found its requirement before the second
walk looks it up (`NamedAreLive`). That all the Keywords' and MeasRefs'
requirements are of other kinds than the columns' is part of the assumption.

The second, `NothingLeft` and `EachGetsItsOwn`, is about what arrives. What a
column has in the list depends on the columns before it, through regions and keys
that they share; the block of a column after a set of others is `BlockOf`. The
list that is left holds the blocks of the columns that are left, one after the
other; `LaidOut` says so by the places at which they begin, since a function of
the descriptor would need recursion. While the sender works these are the blocks
after the columns sent so far, and what is marked as added is in the list
(`SentSoFar`); while the receiver works they are the blocks after the columns it
has made, and what it remembers of regions and fields is what these columns have
brought (`MdKnown`, `ValKnown`). The two agree because a field that a
requirement has belongs to a column with the same key (`Gathered`), which is where
the receiver, who looks by region and field, and the sender, who looks by region
and mode, could part. `legion_deserialize` takes two requirements for each new
region: right because a Table is serialized with the same request for all columns
(`SerializedKeys`). `EachGetsItsOwn` has one hypothesis, `AllHeeded`:
`PhysicalTable::requirements` does not look at a partition that is given for a
column (its key is region, privilege, coherence and tag, `PhysicalTable.cc:445`),
so for it a call must not give one. TLC evaluates it for the calls of the run.
That a column without a partition gets one that is meant for it is stated, as in
the run, for columns that are `Unmixed`.

`IndexColumn_proofs`, for columns of any length, any values and any number of
blocks, from `IndexAssumption`: `NoRowLost`, `IndexRight`. Both are about
executions without a read before the vector (`~wild`). What is listed and not yet
folded, and what is folded, are apart and are the rows of the blocks taken so far
(`Conserved`); that needs that blocks are apart and cover the rows
(`BlocksApart`, `BlocksCover`), which is arithmetic on their bounds. Lists stay in
order (`Sorted`) although an insertion sets the iterator back, because all that is
behind the iterator is less than the next row to insert (`Placed`): going back
repeats comparisons, and never skips one.

`RowMapping_proofs`, for tables of any number of rows, axes and index columns, from
`RowMappingAssumption`: `MapIsMeant`, `WrittenOnce`, `DisjointComplete`,
`ValuesFound`. Three layers: the lexicographic order is one (`PointsOrdered`);
the loop of `std::set_intersection` on two lists in order puts out, in order, what
both have (`Merging`, kept by each `Turn`), so the rows of a task are those with
its values and, without a list for the second column, need no order at all
(`RowsToWriteIs`); and every row is a row of the task at its own point and of no
other (`PointOf`), at the place that is its rank, so what a task has written is
what is meant (`MapSoFar`) however the tasks interleave. The theorems have as
hypotheses `Reindexable`, that lists are in order where an order is needed and
that `allow_rows` is used where nothing is above ROW, and, for the last two,
`RowsFromZero`, since the new row axis has the bounds of ROW while ranks start at
zero. They are properties of the tables and not of a state; TLC evaluates both for the
shapes of its run, and where a table does not have them the theorems fail, as
section 4 tells.

`TestLog_proofs`, for a log of any length and any finite set of sub-tasks, from
`TestLogAssumption` and under the condition `Careful`: `PromiseKept`, which says
that `TestLog` implements `TestReport` under the mapping of the module, and
`AbortTold`. The argument: each task's part of the log is filled from its front
(`FilledFromFront`), its recorder stands at the first unknown entry
(`AtFirstUnknown`), parts of tasks that may run at once are apart (`PartsApart`),
results are numbered without a gap (`ResultsCounted`), and an abort is known to
the recorder of its task and to its reduction instance (`AbortsKnown`). That the
equal parts are apart needs that the sub-tasks can be numbered, which is proved
by the well-founded order of subsets, as is the existence of a first unknown entry
(`Least`, in `Lemmas`).

`FftPlan_proofs`, for any set of transforms and shapes and any requests:
`TypeCorrect`, `Exclusive`, `OwnLimit`, `ArraysRight`, `AllReleased`. Here `IInv`
adds to the types that the flag tells whether a worker is inside (`Patient`), that
a plan is live from its creation to its execution and its destroyer waits for
that (`PlanKept`), and that nobody changes the limit between the setting and the
search (`LimitKept`). `OutcomeInv` adds what each step of a chain has done to its
array, that whoever is inside will unlock, and that a plan that is executed will
be destroyed.

`CfCompute_proofs`, for any inputs that serve (`InputsServe`), any window, and any
order of the pieces of the launches: `PartitionsHold`, that every partition of a
launch is what the runtime is told of it, covers every column that the launch
uses, and is apart on those it writes. A partition is a list of cuts of axes at
known lengths (`Cuts`). `CutsCover`, `CutsApart` and `CutsDeclared` are about such
lists, for blocks of any size that need not divide an axis: the colors of a cut
reach the last element, blocks of two colors are apart, and whatever the code
reads for the number of colors (`ColumnSpacePartition.cc:148`), such a partition
is complete, and it is called disjoint only if the ColumnSpace lacks no axis. The invariant then says where partitions and
ColumnSpaces come from: the ColumnSpaces of a table's columns are made once and
stay (`SpacesStay`), they have the axes of the table at the lengths that the
arguments give (`SpacesMeasured`), each step of the program comes after those
that make what it goes by (`ProgramInOrder`, for every
choice of terms), and a partition narrowed to other columns keeps cuts
of axes that these have (`RowsNarrowed`). `InputsServe` says that every axis has
a value, that an axis is cut once, that the Stokes axes are not cut (what the code
does then, `map_mueller_to_stokes`, is not modelled), and that a cut of the rows
includes classes or frequencies. The last is needed: the coefficients have no
other axis of the rows, and section 4 tells what becomes of a cut of angles alone. `cfcompute` itself never passes a
partition of the rows, so the hypothesis leaves out nothing that a driver here
does; TLC evaluates it for the inputs of the run. Its values of an axis are
integers and its grids have at least one cell; that what was never written
(`Garbage`) is not a number or made of numbers is `GarbageAssumption`.

The second result there is `TermsHold`, that a print of the PS or W term shows
the whole term and that of the A term what it holds until it is destroyed
(`TermsShown`). Nobody waits for a launch, so this rests on the runtime's rule
(`Conflict`), and on the columns that each step of the program names. The
invariant `DInv` has three parts. `Standing` is about any step: the launches
that are pending are in the order of the program (`InOrder`), a ColumnSpace that
is there is the one that the arguments describe (`SpacesGiven`), and a pending
launch has pieces left, of its own partition (`Outstanding`). `TermInv(T)` is
about a term T and the grid it is computed on: what is over is over in the order of
the program (`StepsFollow`); columns stay until they are destroyed
(`ColumnsStand`); angles, grid and index values, once written, are those of the
arguments (`AnglesRead`, `GridMade`, `IndexMade`); from its launch on, each point
of the term waits for a piece (`Ahead`) or holds a value made of the argument for
its place (`Right`), which is `TermMade`; and the print says so (`TermShown`).
A print runs when the launch it depends on is over, so that no point is
`Ahead`. `ApertureInv` says that the A term, whose elements are computed and
transformed in the same column, does not change once it is printed; what its
elements come to is left to TLC (`MuellerElements`). `LaunchKeepsTerm` and
`TaskKeepsTerm` show that a step of the driver and a piece of any launch keep
`TermInv`, `DriverKeepsAperture` and `TaskKeepsAperture` the same of `ApertureInv`.

Only model-checked: the liveness properties (`FoldEnds`, `Arrives`, `AllFinish`,
`Reported`), since TLAPS proves neither liveness under fairness nor ENABLED;
what is made of index trees (`RefsMadeBack`, `EquivTellsApart`, `FileAsBuilt`,
`ExportReadBack`, `TreesStandForCells`), which rests on recursive operators, for
which the provers have no induction; and `ProductOfTerms` and
`MuellerElements`, which say what the computations of `CfCompute` come to, by
recursive functions over axes and grids. Recursion
over numbers, as in the loops of `RowMapping`, is written as recursive functions,
and that they can be run is proved (`LoopRuns`).

## 6. Plan

Done, in this order: tables and sessions, requirements with partitions, the
column index, reindexing, FFT; index trees, measure references, keywords, the
file and ms2h5; the test log with its abstract specification; cfcompute with
partitions and the Zernike basis; proofs for tables, sessions, requirements, the
column index, reindexing, log and FFT, for the partitions and the terms of cfcompute, for
keywords and measures, and for ms2h5.

What is left, the most useful first:

1. `PhysicalTable::reindexed`: which columns and axes are reindexed, composing
   `IndexColumn`, `RowMapping` and the clones of `ColumnMeta`; with it the
   point-wise conformance that `SameRows` stands for (`do_domains_conform`).
2. `TableMapper`: cached mappings against instances that come and go.
3. `Table::partition_rows`, partitions of variable blocks, `map_mueller_to_stokes`.
4. The precedence of `gridder`'s arguments; a gridder that composes
   `TableSession` and `Requirements`.
5. Abstract specifications of an index as a function from values to sets of rows,
   which `IndexColumn` implements while its iterator stays in its vector, and of
   a transform as one atomic step, which a patient `FftPlan` implements.

## 7. Not modelled

- *Element arithmetic*: the values of spheroidal functions, W terms, parallactic
  angles and transforms. A value is what it was computed from.
- *Weights* of the convolution functions: written beside the values of the PS and W
  terms, multiplied like them, and never written for the A term
  (`compute_aifs_task`, `ATermTable::compute_cfs_task`), so that what the A term's
  weights hold, and those of a product with it, is whatever was in memory.
- *TableMapper*: what an entry of its cache is worth is decided by the runtime's
  collection of instances, of which this code says little.
- *Accessors and enumerations* (`PhysicalColumn.h` but for measures,
  `PhysicalTableGuard.h`, `MS*Table.h`): typed views that change no state.
- *Data type dispatch, formatted output, registration of reductions, C wrappers*:
  no state, or the state of what they wrap.
- *gridder's arguments*: parsing.
- *Legion, HDF5, casacore, FFTW*: modelled only as this code uses them, and marked
  external where a definition stands for them.
