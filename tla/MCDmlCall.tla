----------------------------- MODULE MCDmlCall -----------------------------
(***************************************************************************)
(* Instances of DmlCall.  Five records in two or three chunks, the last of *)
(* which is shorter, with batches that do not fill their chunk either.     *)
(***************************************************************************)
EXTENDS DmlCall

ByEngine(rest, bulk) == [e \in Engines |-> IF e = "REST" THEN rest ELSE bulk]
RestInsert ==
  [operation |-> "Insert",
   alwaysUseRest |-> FALSE, alwaysUseBulk |-> FALSE, bulkThreshold |-> N + 1,
   bulkApiVersion |-> 2, bulkSupported |-> TRUE,
   parallel |-> ByEngine(2, 1), batchSize |-> ByEngine(2, 1),
   allOrNone |-> FALSE, respectOrder |-> FALSE, mayHardDelete |-> TRUE, canPurge |-> TRUE]
\* Just enough records for the Bulk API; one of the four jobs that may run gets none.
BulkUpdate ==
  [RestInsert EXCEPT !.operation = "Update", !.bulkThreshold = N, !.bulkApiVersion = 1,
   !.parallel = ByEngine(1, 4)]
\* In bulk although the records are few; both jobs are refused, and three REST chunks
\* repeat the call without purging the recycle bin.
RefusedHardDelete ==
  [RestInsert EXCEPT !.operation = "HardDelete",
   !.parallel = ByEngine(3, 2), !.batchSize = ByEngine(1, 1),
   !.allOrNone = TRUE, !.mayHardDelete = FALSE, !.canPurge = FALSE]
RefusedByBulkV1 == [RefusedHardDelete EXCEPT !.bulkApiVersion = 1]
\* The same with one REST chunk that also purges the recycle bin.
PurgingHardDelete ==
  [RefusedHardDelete EXCEPT !.parallel = ByEngine(1, 2), !.batchSize = ByEngine(3, 1),
   !.allOrNone = FALSE, !.canPurge = TRUE]
\* An object without Bulk API, whatever the settings ask for.
RestHardDelete ==
  [RestInsert EXCEPT !.operation = "HardDelete", !.alwaysUseBulk = TRUE,
   !.bulkSupported = FALSE, !.batchSize = ByEngine(3, 1)]
\* Batches of one, but two chunks nevertheless.
OrderedDelete ==
  [RestInsert EXCEPT !.operation = "Delete", !.alwaysUseBulk = TRUE, !.respectOrder = TRUE]
MCCalls ==
  {RestInsert, BulkUpdate, RefusedHardDelete, RefusedByBulkV1, PurgingHardDelete,
   RestHardDelete, OrderedDelete}
=============================================================================
