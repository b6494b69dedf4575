---------------------------- MODULE MCMailProofs ----------------------------
(***************************************************************************)
(* The theorems of FolderSync and ThreadLifecycle, for the composition     *)
(* that TLC checks.  Of the instances of MCMail only the one picked first  *)
(* moves, so what a component does in every behaviour, its part does in    *)
(* every behaviour of the composition.                                     *)
(***************************************************************************)
EXTENDS MCMail, TLAPS

\* The theorems of FolderSync and ThreadLifecycle, about the instances of MCMail.
DeepFacts == INSTANCE FolderSyncProofs WITH
  server <- y1, uidNext <- y2, wandered <- y3, unthreaded <- y4, skipped <- y5,
  crossed <- y6, mark <- y7, row <- y8, purged <- y9, run <- y10, failures <- y11,
  Mails <- {m1, m2}, Folders <- {"inbox"}, QueueRuns <- {q1}, LiveRuns <- {l1},
  MaySwitch <- FALSE, Labels <- FALSE, MaxUid <- 2, MaxRows <- 3, MaxFailures <- 0

WideFacts == INSTANCE FolderSyncProofs WITH
  server <- y1, uidNext <- y2, wandered <- y3, unthreaded <- y4, skipped <- y5,
  crossed <- y6, mark <- y7, row <- y8, purged <- y9, run <- y10, failures <- y11,
  Mails <- {m1}, Folders <- {"inbox", "trash"}, QueueRuns <- {q1}, LiveRuns <- {l1},
  MaySwitch <- FALSE, Labels <- FALSE, MaxUid <- 1, MaxRows <- 3, MaxFailures <- 0

LabelledFacts == INSTANCE FolderSyncProofs WITH
  server <- y1, uidNext <- y2, wandered <- y3, unthreaded <- y4, skipped <- y5,
  crossed <- y6, mark <- y7, row <- y8, purged <- y9, run <- y10, failures <- y11,
  Mails <- {m1}, Folders <- {"inbox", "archive"}, QueueRuns <- {q1}, LiveRuns <- {l1},
  MaySwitch <- FALSE, Labels <- TRUE, MaxUid <- 1, MaxRows <- 3, MaxFailures <- 0

FailingFacts == INSTANCE FolderSyncProofs WITH
  server <- y1, uidNext <- y2, wandered <- y3, unthreaded <- y4, skipped <- y5,
  crossed <- y6, mark <- y7, row <- y8, purged <- y9, run <- y10, failures <- y11,
  Mails <- {m1, m2}, Folders <- {"inbox"}, QueueRuns <- {q1}, LiveRuns <- {},
  MaySwitch <- TRUE, Labels <- FALSE, MaxUid <- 2, MaxRows <- 3, MaxFailures <- 1

CrowdFacts == INSTANCE ThreadLifecycleProofs WITH
  thread <- y1, snooze <- y2, request <- y3, waker <- y4, job <- y5, deleter <- y6,
  provider <- y7, stored <- y8, arriving <- y9, zombies <- y10, crashes <- y11,
  before <- y12, mixed <- y13, late <- y14, filed <- y15,
  Users <- {u1, u2}, Operations <- {"snooze", "remove"}, Deleters <- {d1},
  WakeUps <- {}, Mails <- {m1}, Attached <- {}, Unlinked <- {},
  DeleteAttempts <- 2, MaxRemovals <- 1, MaxCrashes <- 0

FiledFacts == INSTANCE ThreadLifecycleProofs WITH
  thread <- y1, snooze <- y2, request <- y3, waker <- y4, job <- y5, deleter <- y6,
  provider <- y7, stored <- y8, arriving <- y9, zombies <- y10, crashes <- y11,
  before <- y12, mixed <- y13, late <- y14, filed <- y15,
  Users <- {u1, u2}, Operations <- {"file", "remove"}, Deleters <- {d1},
  WakeUps <- {}, Mails <- {m1}, Attached <- {}, Unlinked <- {},
  DeleteAttempts <- 1, MaxRemovals <- 2, MaxCrashes <- 0

BusyFacts == INSTANCE ThreadLifecycleProofs WITH
  thread <- y1, snooze <- y2, request <- y3, waker <- y4, job <- y5, deleter <- y6,
  provider <- y7, stored <- y8, arriving <- y9, zombies <- y10, crashes <- y11,
  before <- y12, mixed <- y13, late <- y14, filed <- y15,
  Users <- {u1}, Operations <- {"snooze", "assign", "file", "remove"},
  Deleters <- {d1}, WakeUps <- {}, Mails <- {m1, m2}, Attached <- {m2},
  Unlinked <- {m2}, DeleteAttempts <- 1, MaxRemovals <- 1, MaxCrashes <- 1

AgainFacts == INSTANCE ThreadLifecycleProofs WITH
  thread <- y1, snooze <- y2, request <- y3, waker <- y4, job <- y5, deleter <- y6,
  provider <- y7, stored <- y8, arriving <- y9, zombies <- y10, crashes <- y11,
  before <- y12, mixed <- y13, late <- y14, filed <- y15,
  Users <- {u1},
  Operations <- {"snooze", "unsnooze", "archive", "unarchive", "remove"},
  Deleters <- {d1, d2}, WakeUps <- {}, Mails <- {m1}, Attached <- {m1}, Unlinked <- {},
  DeleteAttempts <- 2, MaxRemovals <- 2, MaxCrashes <- 2

-----------------------------------------------------------------------------
\* Three or four lemmas for each part. Is: the theorems of the component are about the
\* instance the run checks, and its constants are fit for them. Moves: what starts as
\* the part starts and moves as the component, and stays the part. Steps: so do the
\* steps that the action properties are about. Runs: a behaviour of the composition
\* never is the part, or is a behaviour of the component for ever.

LEMMA DeepIs ==
  /\ DeepFacts!FolderAssumption
  /\ Deep!Init <=> DeepFacts!Init
  /\ [Deep!Next]_(Deep!vars) <=> [DeepFacts!Next]_(DeepFacts!vars)
  /\ Deep!NoMailSkipped <=> DeepFacts!NoMailSkipped
  /\ Deep!NoMailTwice <=> DeepFacts!NoMailTwice
  /\ [Deep!KeepsStored]_(Deep!vars) <=> [DeepFacts!KeepsStored]_(DeepFacts!vars)
PROOF
  BY InstancesAreFit
    DEF Deep!FolderAssumption, Deep!Priority, Deep!Init, Deep!RowIds, Deep!NoRow, Deep!Runs,
        Deep!Idle, Deep!Next, Deep!ServerStep, Deep!Arrivals, Deep!Apart, Deep!Deliver,
        Deep!Expunge, Deep!Move, Deep!ToggleThreading, Deep!atServer, Deep!Open, Deep!At,
        Deep!Goto, Deep!RunStep, Deep!ReadRow, Deep!Reading, Deep!Search, Deep!Incremental,
        Deep!InFolder, Deep!Fetching, Deep!SearchAll, Deep!Compare, Deep!Local,
        Deep!Present, Deep!Purge, Deep!Without, Deep!Fetch, Deep!Look, Deep!First,
        Deep!Occupied, Deep!Holds, Deep!Stored, Deep!GoOn, Deep!Rest, Deep!SameMail,
        Deep!With, Deep!TakesOver, Deep!Crossing, Deep!InSeveral, Deep!Storing,
        Deep!MoveRow, Deep!StateIn, Deep!Create, Deep!Free, Deep!Made, Deep!Dedupe,
        Deep!Drop, Deep!LookBatch, Deep!MoveBatch, Deep!CreateBatch, Deep!Close, Deep!Fail,
        Deep!vars, Deep!NoMailSkipped, Deep!Settled, Deep!StoredMail, Deep!NoMailTwice,
        Deep!KeepsStored, Deep!Cardinality, Deep!Max, Deep!Min, DeepFacts!FolderAssumption,
        DeepFacts!Priority, DeepFacts!Init, DeepFacts!RowIds, DeepFacts!NoRow,
        DeepFacts!Runs, DeepFacts!Idle, DeepFacts!Next, DeepFacts!ServerStep,
        DeepFacts!Arrivals, DeepFacts!Apart, DeepFacts!Deliver, DeepFacts!Expunge,
        DeepFacts!Move, DeepFacts!ToggleThreading, DeepFacts!atServer, DeepFacts!Open,
        DeepFacts!At, DeepFacts!Goto, DeepFacts!RunStep, DeepFacts!ReadRow,
        DeepFacts!Reading, DeepFacts!Search, DeepFacts!Incremental, DeepFacts!InFolder,
        DeepFacts!Fetching, DeepFacts!SearchAll, DeepFacts!Compare, DeepFacts!Local,
        DeepFacts!Present, DeepFacts!Purge, DeepFacts!Without, DeepFacts!Fetch,
        DeepFacts!Look, DeepFacts!First, DeepFacts!Occupied, DeepFacts!Holds,
        DeepFacts!Stored, DeepFacts!GoOn, DeepFacts!Rest, DeepFacts!SameMail,
        DeepFacts!With, DeepFacts!TakesOver, DeepFacts!Crossing, DeepFacts!InSeveral,
        DeepFacts!Storing, DeepFacts!MoveRow, DeepFacts!StateIn, DeepFacts!Create,
        DeepFacts!Free, DeepFacts!Made, DeepFacts!Dedupe, DeepFacts!Drop,
        DeepFacts!LookBatch, DeepFacts!MoveBatch, DeepFacts!CreateBatch, DeepFacts!Close,
        DeepFacts!Fail, DeepFacts!vars, DeepFacts!NoMailSkipped, DeepFacts!Settled,
        DeepFacts!StoredMail, DeepFacts!NoMailTwice, DeepFacts!KeepsStored,
        DeepFacts!Cardinality, DeepFacts!Max, DeepFacts!Min

LEMMA DeepMoves ==
  /\ Init /\ part = "deep" => DeepFacts!Init
  /\ [Next]_vars => ((part = "deep")' <=> part = "deep")
  /\ [Next]_vars /\ part = "deep" => [DeepFacts!Next]_(DeepFacts!vars)
PROOF
  BY DeepIs
    DEF Init, DeskInit, Next, DeskNext, vars, After11, Deep!vars, Deep!atServer

LEMMA DeepSteps ==
  /\ [Next]_vars /\ part = "deep" /\ [DeepFacts!KeepsStored]_(DeepFacts!vars)
       => [Deep!KeepsStored]_vars
PROOF
  BY DeepIs
    DEF Next, DeskNext, vars, After11, Deep!vars, Deep!atServer

LEMMA DeepRuns ==
  Spec => \/ [](~(part = "deep"))
          \/ DeepFacts!Spec /\ [](part = "deep")
PROOF
<1>1. Spec /\ part = "deep" => [](part = "deep")
  BY DeepMoves, PTL DEF Spec
<1>2. Spec /\ ~(part = "deep") => [](~(part = "deep"))
  BY DeepMoves, PTL DEF Spec
<1>3. Spec /\ [](part = "deep") => DeepFacts!Spec
  BY DeepMoves, PTL DEF Spec, DeepFacts!Spec
<1> QED BY <1>1, <1>2, <1>3, PTL

LEMMA WideIs ==
  /\ WideFacts!FolderAssumption
  /\ Wide!Init <=> WideFacts!Init
  /\ [Wide!Next]_(Wide!vars) <=> [WideFacts!Next]_(WideFacts!vars)
  /\ Wide!NoMailSkipped <=> WideFacts!NoMailSkipped
  /\ Wide!NoMailTwice <=> WideFacts!NoMailTwice
  /\ [Wide!KeepsStored]_(Wide!vars) <=> [WideFacts!KeepsStored]_(WideFacts!vars)
PROOF
  BY InstancesAreFit
    DEF Wide!FolderAssumption, Wide!Priority, Wide!Init, Wide!RowIds, Wide!NoRow, Wide!Runs,
        Wide!Idle, Wide!Next, Wide!ServerStep, Wide!Arrivals, Wide!Apart, Wide!Deliver,
        Wide!Expunge, Wide!Move, Wide!ToggleThreading, Wide!atServer, Wide!Open, Wide!At,
        Wide!Goto, Wide!RunStep, Wide!ReadRow, Wide!Reading, Wide!Search, Wide!Incremental,
        Wide!InFolder, Wide!Fetching, Wide!SearchAll, Wide!Compare, Wide!Local,
        Wide!Present, Wide!Purge, Wide!Without, Wide!Fetch, Wide!Look, Wide!First,
        Wide!Occupied, Wide!Holds, Wide!Stored, Wide!GoOn, Wide!Rest, Wide!SameMail,
        Wide!With, Wide!TakesOver, Wide!Crossing, Wide!InSeveral, Wide!Storing,
        Wide!MoveRow, Wide!StateIn, Wide!Create, Wide!Free, Wide!Made, Wide!Dedupe,
        Wide!Drop, Wide!LookBatch, Wide!MoveBatch, Wide!CreateBatch, Wide!Close, Wide!Fail,
        Wide!vars, Wide!NoMailSkipped, Wide!Settled, Wide!StoredMail, Wide!NoMailTwice,
        Wide!KeepsStored, Wide!Cardinality, Wide!Max, Wide!Min, WideFacts!FolderAssumption,
        WideFacts!Priority, WideFacts!Init, WideFacts!RowIds, WideFacts!NoRow,
        WideFacts!Runs, WideFacts!Idle, WideFacts!Next, WideFacts!ServerStep,
        WideFacts!Arrivals, WideFacts!Apart, WideFacts!Deliver, WideFacts!Expunge,
        WideFacts!Move, WideFacts!ToggleThreading, WideFacts!atServer, WideFacts!Open,
        WideFacts!At, WideFacts!Goto, WideFacts!RunStep, WideFacts!ReadRow,
        WideFacts!Reading, WideFacts!Search, WideFacts!Incremental, WideFacts!InFolder,
        WideFacts!Fetching, WideFacts!SearchAll, WideFacts!Compare, WideFacts!Local,
        WideFacts!Present, WideFacts!Purge, WideFacts!Without, WideFacts!Fetch,
        WideFacts!Look, WideFacts!First, WideFacts!Occupied, WideFacts!Holds,
        WideFacts!Stored, WideFacts!GoOn, WideFacts!Rest, WideFacts!SameMail,
        WideFacts!With, WideFacts!TakesOver, WideFacts!Crossing, WideFacts!InSeveral,
        WideFacts!Storing, WideFacts!MoveRow, WideFacts!StateIn, WideFacts!Create,
        WideFacts!Free, WideFacts!Made, WideFacts!Dedupe, WideFacts!Drop,
        WideFacts!LookBatch, WideFacts!MoveBatch, WideFacts!CreateBatch, WideFacts!Close,
        WideFacts!Fail, WideFacts!vars, WideFacts!NoMailSkipped, WideFacts!Settled,
        WideFacts!StoredMail, WideFacts!NoMailTwice, WideFacts!KeepsStored,
        WideFacts!Cardinality, WideFacts!Max, WideFacts!Min

LEMMA WideMoves ==
  /\ Init /\ part = "wide" => WideFacts!Init
  /\ [Next]_vars => ((part = "wide")' <=> part = "wide")
  /\ [Next]_vars /\ part = "wide" => [WideFacts!Next]_(WideFacts!vars)
PROOF
  BY WideIs
    DEF Init, DeskInit, Next, DeskNext, vars, After11, Wide!vars, Wide!atServer

LEMMA WideSteps ==
  /\ [Next]_vars /\ part = "wide" /\ [WideFacts!KeepsStored]_(WideFacts!vars)
       => [Wide!KeepsStored]_vars
PROOF
  BY WideIs
    DEF Next, DeskNext, vars, After11, Wide!vars, Wide!atServer

LEMMA WideRuns ==
  Spec => \/ [](~(part = "wide"))
          \/ WideFacts!Spec /\ [](part = "wide")
PROOF
<1>1. Spec /\ part = "wide" => [](part = "wide")
  BY WideMoves, PTL DEF Spec
<1>2. Spec /\ ~(part = "wide") => [](~(part = "wide"))
  BY WideMoves, PTL DEF Spec
<1>3. Spec /\ [](part = "wide") => WideFacts!Spec
  BY WideMoves, PTL DEF Spec, WideFacts!Spec
<1> QED BY <1>1, <1>2, <1>3, PTL

LEMMA LabelledIs ==
  /\ LabelledFacts!FolderAssumption
  /\ Labelled!Init <=> LabelledFacts!Init
  /\ [Labelled!Next]_(Labelled!vars) <=> [LabelledFacts!Next]_(LabelledFacts!vars)
  /\ Labelled!NoMailSkipped <=> LabelledFacts!NoMailSkipped
  /\ Labelled!NoMailTwice <=> LabelledFacts!NoMailTwice
  /\ [Labelled!KeepsStored]_(Labelled!vars)
       <=> [LabelledFacts!KeepsStored]_(LabelledFacts!vars)
PROOF
  BY InstancesAreFit
    DEF Labelled!FolderAssumption, Labelled!Priority, Labelled!Init, Labelled!RowIds,
        Labelled!NoRow, Labelled!Runs, Labelled!Idle, Labelled!Next, Labelled!ServerStep,
        Labelled!Arrivals, Labelled!Apart, Labelled!Deliver, Labelled!Expunge,
        Labelled!Move, Labelled!ToggleThreading, Labelled!atServer, Labelled!Open,
        Labelled!At, Labelled!Goto, Labelled!RunStep, Labelled!ReadRow, Labelled!Reading,
        Labelled!Search, Labelled!Incremental, Labelled!InFolder, Labelled!Fetching,
        Labelled!SearchAll, Labelled!Compare, Labelled!Local, Labelled!Present,
        Labelled!Purge, Labelled!Without, Labelled!Fetch, Labelled!Look, Labelled!First,
        Labelled!Occupied, Labelled!Holds, Labelled!Stored, Labelled!GoOn, Labelled!Rest,
        Labelled!SameMail, Labelled!With, Labelled!TakesOver, Labelled!Crossing,
        Labelled!InSeveral, Labelled!Storing, Labelled!MoveRow, Labelled!StateIn,
        Labelled!Create, Labelled!Free, Labelled!Made, Labelled!Dedupe, Labelled!Drop,
        Labelled!LookBatch, Labelled!MoveBatch, Labelled!CreateBatch, Labelled!Close,
        Labelled!Fail, Labelled!vars, Labelled!NoMailSkipped, Labelled!Settled,
        Labelled!StoredMail, Labelled!NoMailTwice, Labelled!KeepsStored,
        Labelled!Cardinality, Labelled!Max, Labelled!Min, LabelledFacts!FolderAssumption,
        LabelledFacts!Priority, LabelledFacts!Init, LabelledFacts!RowIds,
        LabelledFacts!NoRow, LabelledFacts!Runs, LabelledFacts!Idle, LabelledFacts!Next,
        LabelledFacts!ServerStep, LabelledFacts!Arrivals, LabelledFacts!Apart,
        LabelledFacts!Deliver, LabelledFacts!Expunge, LabelledFacts!Move,
        LabelledFacts!ToggleThreading, LabelledFacts!atServer, LabelledFacts!Open,
        LabelledFacts!At, LabelledFacts!Goto, LabelledFacts!RunStep, LabelledFacts!ReadRow,
        LabelledFacts!Reading, LabelledFacts!Search, LabelledFacts!Incremental,
        LabelledFacts!InFolder, LabelledFacts!Fetching, LabelledFacts!SearchAll,
        LabelledFacts!Compare, LabelledFacts!Local, LabelledFacts!Present,
        LabelledFacts!Purge, LabelledFacts!Without, LabelledFacts!Fetch, LabelledFacts!Look,
        LabelledFacts!First, LabelledFacts!Occupied, LabelledFacts!Holds,
        LabelledFacts!Stored, LabelledFacts!GoOn, LabelledFacts!Rest,
        LabelledFacts!SameMail, LabelledFacts!With, LabelledFacts!TakesOver,
        LabelledFacts!Crossing, LabelledFacts!InSeveral, LabelledFacts!Storing,
        LabelledFacts!MoveRow, LabelledFacts!StateIn, LabelledFacts!Create,
        LabelledFacts!Free, LabelledFacts!Made, LabelledFacts!Dedupe, LabelledFacts!Drop,
        LabelledFacts!LookBatch, LabelledFacts!MoveBatch, LabelledFacts!CreateBatch,
        LabelledFacts!Close, LabelledFacts!Fail, LabelledFacts!vars,
        LabelledFacts!NoMailSkipped, LabelledFacts!Settled, LabelledFacts!StoredMail,
        LabelledFacts!NoMailTwice, LabelledFacts!KeepsStored, LabelledFacts!Cardinality,
        LabelledFacts!Max, LabelledFacts!Min

LEMMA LabelledMoves ==
  /\ Init /\ part = "labelled" => LabelledFacts!Init
  /\ [Next]_vars => ((part = "labelled")' <=> part = "labelled")
  /\ [Next]_vars /\ part = "labelled" => [LabelledFacts!Next]_(LabelledFacts!vars)
PROOF
  BY LabelledIs
    DEF Init, DeskInit, Next, DeskNext, vars, After11, Labelled!vars, Labelled!atServer

LEMMA LabelledSteps ==
  /\ [Next]_vars /\ part = "labelled"
       /\ [LabelledFacts!KeepsStored]_(LabelledFacts!vars)
       => [Labelled!KeepsStored]_vars
PROOF
  BY LabelledIs
    DEF Next, DeskNext, vars, After11, Labelled!vars, Labelled!atServer

LEMMA LabelledRuns ==
  Spec => \/ [](~(part = "labelled"))
          \/ LabelledFacts!Spec /\ [](part = "labelled")
PROOF
<1>1. Spec /\ part = "labelled" => [](part = "labelled")
  BY LabelledMoves, PTL DEF Spec
<1>2. Spec /\ ~(part = "labelled") => [](~(part = "labelled"))
  BY LabelledMoves, PTL DEF Spec
<1>3. Spec /\ [](part = "labelled") => LabelledFacts!Spec
  BY LabelledMoves, PTL DEF Spec, LabelledFacts!Spec
<1> QED BY <1>1, <1>2, <1>3, PTL

LEMMA FailingIs ==
  /\ FailingFacts!FolderAssumption
  /\ Failing!Init <=> FailingFacts!Init
  /\ [Failing!Next]_(Failing!vars) <=> [FailingFacts!Next]_(FailingFacts!vars)
  /\ Failing!NoMailSkipped <=> FailingFacts!NoMailSkipped
  /\ Failing!NoMailTwice <=> FailingFacts!NoMailTwice
  /\ [Failing!KeepsStored]_(Failing!vars) <=> [FailingFacts!KeepsStored]_(FailingFacts!vars)
PROOF
  BY InstancesAreFit
    DEF Failing!FolderAssumption, Failing!Priority, Failing!Init, Failing!RowIds,
        Failing!NoRow, Failing!Runs, Failing!Idle, Failing!Next, Failing!ServerStep,
        Failing!Arrivals, Failing!Apart, Failing!Deliver, Failing!Expunge, Failing!Move,
        Failing!ToggleThreading, Failing!atServer, Failing!Open, Failing!At, Failing!Goto,
        Failing!RunStep, Failing!ReadRow, Failing!Reading, Failing!Search,
        Failing!Incremental, Failing!InFolder, Failing!Fetching, Failing!SearchAll,
        Failing!Compare, Failing!Local, Failing!Present, Failing!Purge, Failing!Without,
        Failing!Fetch, Failing!Look, Failing!First, Failing!Occupied, Failing!Holds,
        Failing!Stored, Failing!GoOn, Failing!Rest, Failing!SameMail, Failing!With,
        Failing!TakesOver, Failing!Crossing, Failing!InSeveral, Failing!Storing,
        Failing!MoveRow, Failing!StateIn, Failing!Create, Failing!Free, Failing!Made,
        Failing!Dedupe, Failing!Drop, Failing!LookBatch, Failing!MoveBatch,
        Failing!CreateBatch, Failing!Close, Failing!Fail, Failing!vars,
        Failing!NoMailSkipped, Failing!Settled, Failing!StoredMail, Failing!NoMailTwice,
        Failing!KeepsStored, Failing!Cardinality, Failing!Max, Failing!Min,
        FailingFacts!FolderAssumption, FailingFacts!Priority, FailingFacts!Init,
        FailingFacts!RowIds, FailingFacts!NoRow, FailingFacts!Runs, FailingFacts!Idle,
        FailingFacts!Next, FailingFacts!ServerStep, FailingFacts!Arrivals,
        FailingFacts!Apart, FailingFacts!Deliver, FailingFacts!Expunge, FailingFacts!Move,
        FailingFacts!ToggleThreading, FailingFacts!atServer, FailingFacts!Open,
        FailingFacts!At, FailingFacts!Goto, FailingFacts!RunStep, FailingFacts!ReadRow,
        FailingFacts!Reading, FailingFacts!Search, FailingFacts!Incremental,
        FailingFacts!InFolder, FailingFacts!Fetching, FailingFacts!SearchAll,
        FailingFacts!Compare, FailingFacts!Local, FailingFacts!Present, FailingFacts!Purge,
        FailingFacts!Without, FailingFacts!Fetch, FailingFacts!Look, FailingFacts!First,
        FailingFacts!Occupied, FailingFacts!Holds, FailingFacts!Stored, FailingFacts!GoOn,
        FailingFacts!Rest, FailingFacts!SameMail, FailingFacts!With, FailingFacts!TakesOver,
        FailingFacts!Crossing, FailingFacts!InSeveral, FailingFacts!Storing,
        FailingFacts!MoveRow, FailingFacts!StateIn, FailingFacts!Create, FailingFacts!Free,
        FailingFacts!Made, FailingFacts!Dedupe, FailingFacts!Drop, FailingFacts!LookBatch,
        FailingFacts!MoveBatch, FailingFacts!CreateBatch, FailingFacts!Close,
        FailingFacts!Fail, FailingFacts!vars, FailingFacts!NoMailSkipped,
        FailingFacts!Settled, FailingFacts!StoredMail, FailingFacts!NoMailTwice,
        FailingFacts!KeepsStored, FailingFacts!Cardinality, FailingFacts!Max,
        FailingFacts!Min

LEMMA FailingMoves ==
  /\ Init /\ part = "failing" => FailingFacts!Init
  /\ [Next]_vars => ((part = "failing")' <=> part = "failing")
  /\ [Next]_vars /\ part = "failing" => [FailingFacts!Next]_(FailingFacts!vars)
PROOF
  BY FailingIs
    DEF Init, DeskInit, Next, DeskNext, vars, After11, Failing!vars, Failing!atServer

LEMMA FailingSteps ==
  /\ [Next]_vars /\ part = "failing" /\ [FailingFacts!KeepsStored]_(FailingFacts!vars)
       => [Failing!KeepsStored]_vars
PROOF
  BY FailingIs
    DEF Next, DeskNext, vars, After11, Failing!vars, Failing!atServer

LEMMA FailingRuns ==
  Spec => \/ [](~(part = "failing"))
          \/ FailingFacts!Spec /\ [](part = "failing")
PROOF
<1>1. Spec /\ part = "failing" => [](part = "failing")
  BY FailingMoves, PTL DEF Spec
<1>2. Spec /\ ~(part = "failing") => [](~(part = "failing"))
  BY FailingMoves, PTL DEF Spec
<1>3. Spec /\ [](part = "failing") => FailingFacts!Spec
  BY FailingMoves, PTL DEF Spec, FailingFacts!Spec
<1> QED BY <1>1, <1>2, <1>3, PTL

LEMMA CrowdIs ==
  /\ CrowdFacts!ThreadAssumption
  /\ Crowd!Init <=> CrowdFacts!Init
  /\ [Crowd!Next]_(Crowd!vars) <=> [CrowdFacts!Next]_(CrowdFacts!vars)
  /\ [Crowd!LeavesAfterProvider]_(Crowd!vars)
       <=> [CrowdFacts!LeavesAfterProvider]_(CrowdFacts!vars)
  /\ [Crowd!RestoresBefore]_(Crowd!vars) <=> [CrowdFacts!RestoresBefore]_(CrowdFacts!vars)
PROOF
  BY InstancesAreFit
    DEF Crowd!ThreadAssumption, Crowd!Handlers, Crowd!Init, Crowd!Idle, Crowd!Removals,
        Crowd!Queue!NoJob, Crowd!Next, Crowd!UserStep, Crowd!Read, Crowd!Visible,
        Crowd!UsesStatus, Crowd!UsesPrevious, Crowd!rowVars, Crowd!mailVars, Crowd!history,
        Crowd!Write, Crowd!Exists, Crowd!Written, Crowd!Restored, Crowd!SnoozeAfter,
        Crowd!RemoveWrite, Crowd!Unfinished, Crowd!RemoveFails, Crowd!File,
        Crowd!RemoveEnqueue, Crowd!Queue!Added, Crowd!SnoozeEnds, Crowd!WakeSelect,
        Crowd!WakeWrite, Crowd!DeleterStep, Crowd!Take, Crowd!At, Crowd!Queue!Taken,
        Crowd!Goto, Crowd!ReadThread, Crowd!Job, Crowd!Complete, Crowd!Queue!Completed,
        Crowd!MovesDone, Crowd!Cleanup, Crowd!GiveUp, Crowd!Queue!AttemptFailed,
        Crowd!ReadFailed, Crowd!RestoreThread, Crowd!MoveMail, Crowd!Trashed, Crowd!Lost,
        Crowd!MovesFail, Crowd!MailStep, Crowd!Arrive, Crowd!Assign, Crowd!StoreMail,
        Crowd!ZombieMove, Crowd!Wander, Crowd!Refind, Crowd!Crash, Crowd!Queue!Stalled,
        Crowd!vars, Crowd!LeavesAfterProvider, Crowd!PassedOver, Crowd!RestoresBefore,
        Crowd!Restores, CrowdFacts!ThreadAssumption, CrowdFacts!Handlers, CrowdFacts!Init,
        CrowdFacts!Idle, CrowdFacts!Removals, CrowdFacts!Queue!NoJob, CrowdFacts!Next,
        CrowdFacts!UserStep, CrowdFacts!Read, CrowdFacts!Visible, CrowdFacts!UsesStatus,
        CrowdFacts!UsesPrevious, CrowdFacts!rowVars, CrowdFacts!mailVars,
        CrowdFacts!history, CrowdFacts!Write, CrowdFacts!Exists, CrowdFacts!Written,
        CrowdFacts!Restored, CrowdFacts!SnoozeAfter, CrowdFacts!RemoveWrite,
        CrowdFacts!Unfinished, CrowdFacts!RemoveFails, CrowdFacts!File,
        CrowdFacts!RemoveEnqueue, CrowdFacts!Queue!Added, CrowdFacts!SnoozeEnds,
        CrowdFacts!WakeSelect, CrowdFacts!WakeWrite, CrowdFacts!DeleterStep,
        CrowdFacts!Take, CrowdFacts!At, CrowdFacts!Queue!Taken, CrowdFacts!Goto,
        CrowdFacts!ReadThread, CrowdFacts!Job, CrowdFacts!Complete,
        CrowdFacts!Queue!Completed, CrowdFacts!MovesDone, CrowdFacts!Cleanup,
        CrowdFacts!GiveUp, CrowdFacts!Queue!AttemptFailed, CrowdFacts!ReadFailed,
        CrowdFacts!RestoreThread, CrowdFacts!MoveMail, CrowdFacts!Trashed, CrowdFacts!Lost,
        CrowdFacts!MovesFail, CrowdFacts!MailStep, CrowdFacts!Arrive, CrowdFacts!Assign,
        CrowdFacts!StoreMail, CrowdFacts!ZombieMove, CrowdFacts!Wander, CrowdFacts!Refind,
        CrowdFacts!Crash, CrowdFacts!Queue!Stalled, CrowdFacts!vars,
        CrowdFacts!LeavesAfterProvider, CrowdFacts!PassedOver, CrowdFacts!RestoresBefore,
        CrowdFacts!Restores

LEMMA CrowdMoves ==
  /\ Init /\ part = "crowd" => CrowdFacts!Init
  /\ [Next]_vars => ((part = "crowd")' <=> part = "crowd")
  /\ [Next]_vars /\ part = "crowd" => [CrowdFacts!Next]_(CrowdFacts!vars)
PROOF
  BY CrowdIs
    DEF Init, DeskInit, Next, DeskNext, vars, Crowd!vars, Crowd!rowVars, Crowd!mailVars,
        Crowd!history

LEMMA CrowdSteps ==
  /\ [Next]_vars /\ part = "crowd" /\ [CrowdFacts!LeavesAfterProvider]_(CrowdFacts!vars)
       => [Crowd!LeavesAfterProvider]_vars
  /\ [Next]_vars /\ part = "crowd" /\ [CrowdFacts!RestoresBefore]_(CrowdFacts!vars)
       => [Crowd!RestoresBefore]_vars
PROOF
  BY CrowdIs
    DEF Next, DeskNext, vars, Crowd!vars, Crowd!rowVars, Crowd!mailVars, Crowd!history

LEMMA CrowdRuns ==
  Spec => \/ [](~(part = "crowd"))
          \/ CrowdFacts!Spec /\ [](part = "crowd")
PROOF
<1>1. Spec /\ part = "crowd" => [](part = "crowd")
  BY CrowdMoves, PTL DEF Spec
<1>2. Spec /\ ~(part = "crowd") => [](~(part = "crowd"))
  BY CrowdMoves, PTL DEF Spec
<1>3. Spec /\ [](part = "crowd") => CrowdFacts!Spec
  BY CrowdMoves, PTL DEF Spec, CrowdFacts!Spec
<1> QED BY <1>1, <1>2, <1>3, PTL

LEMMA FiledIs ==
  /\ FiledFacts!ThreadAssumption
  /\ Filed!Init <=> FiledFacts!Init
  /\ [Filed!Next]_(Filed!vars) <=> [FiledFacts!Next]_(FiledFacts!vars)
  /\ [Filed!LeavesAfterProvider]_(Filed!vars)
       <=> [FiledFacts!LeavesAfterProvider]_(FiledFacts!vars)
  /\ [Filed!RestoresBefore]_(Filed!vars) <=> [FiledFacts!RestoresBefore]_(FiledFacts!vars)
PROOF
  BY InstancesAreFit
    DEF Filed!ThreadAssumption, Filed!Handlers, Filed!Init, Filed!Idle, Filed!Removals,
        Filed!Queue!NoJob, Filed!Next, Filed!UserStep, Filed!Read, Filed!Visible,
        Filed!UsesStatus, Filed!UsesPrevious, Filed!rowVars, Filed!mailVars, Filed!history,
        Filed!Write, Filed!Exists, Filed!Written, Filed!Restored, Filed!SnoozeAfter,
        Filed!RemoveWrite, Filed!Unfinished, Filed!RemoveFails, Filed!File,
        Filed!RemoveEnqueue, Filed!Queue!Added, Filed!SnoozeEnds, Filed!WakeSelect,
        Filed!WakeWrite, Filed!DeleterStep, Filed!Take, Filed!At, Filed!Queue!Taken,
        Filed!Goto, Filed!ReadThread, Filed!Job, Filed!Complete, Filed!Queue!Completed,
        Filed!MovesDone, Filed!Cleanup, Filed!GiveUp, Filed!Queue!AttemptFailed,
        Filed!ReadFailed, Filed!RestoreThread, Filed!MoveMail, Filed!Trashed, Filed!Lost,
        Filed!MovesFail, Filed!MailStep, Filed!Arrive, Filed!Assign, Filed!StoreMail,
        Filed!ZombieMove, Filed!Wander, Filed!Refind, Filed!Crash, Filed!Queue!Stalled,
        Filed!vars, Filed!LeavesAfterProvider, Filed!PassedOver, Filed!RestoresBefore,
        Filed!Restores, FiledFacts!ThreadAssumption, FiledFacts!Handlers, FiledFacts!Init,
        FiledFacts!Idle, FiledFacts!Removals, FiledFacts!Queue!NoJob, FiledFacts!Next,
        FiledFacts!UserStep, FiledFacts!Read, FiledFacts!Visible, FiledFacts!UsesStatus,
        FiledFacts!UsesPrevious, FiledFacts!rowVars, FiledFacts!mailVars,
        FiledFacts!history, FiledFacts!Write, FiledFacts!Exists, FiledFacts!Written,
        FiledFacts!Restored, FiledFacts!SnoozeAfter, FiledFacts!RemoveWrite,
        FiledFacts!Unfinished, FiledFacts!RemoveFails, FiledFacts!File,
        FiledFacts!RemoveEnqueue, FiledFacts!Queue!Added, FiledFacts!SnoozeEnds,
        FiledFacts!WakeSelect, FiledFacts!WakeWrite, FiledFacts!DeleterStep,
        FiledFacts!Take, FiledFacts!At, FiledFacts!Queue!Taken, FiledFacts!Goto,
        FiledFacts!ReadThread, FiledFacts!Job, FiledFacts!Complete,
        FiledFacts!Queue!Completed, FiledFacts!MovesDone, FiledFacts!Cleanup,
        FiledFacts!GiveUp, FiledFacts!Queue!AttemptFailed, FiledFacts!ReadFailed,
        FiledFacts!RestoreThread, FiledFacts!MoveMail, FiledFacts!Trashed, FiledFacts!Lost,
        FiledFacts!MovesFail, FiledFacts!MailStep, FiledFacts!Arrive, FiledFacts!Assign,
        FiledFacts!StoreMail, FiledFacts!ZombieMove, FiledFacts!Wander, FiledFacts!Refind,
        FiledFacts!Crash, FiledFacts!Queue!Stalled, FiledFacts!vars,
        FiledFacts!LeavesAfterProvider, FiledFacts!PassedOver, FiledFacts!RestoresBefore,
        FiledFacts!Restores

LEMMA FiledMoves ==
  /\ Init /\ part = "filed" => FiledFacts!Init
  /\ [Next]_vars => ((part = "filed")' <=> part = "filed")
  /\ [Next]_vars /\ part = "filed" => [FiledFacts!Next]_(FiledFacts!vars)
PROOF
  BY FiledIs
    DEF Init, DeskInit, Next, DeskNext, vars, Filed!vars, Filed!rowVars, Filed!mailVars,
        Filed!history

LEMMA FiledSteps ==
  /\ [Next]_vars /\ part = "filed" /\ [FiledFacts!LeavesAfterProvider]_(FiledFacts!vars)
       => [Filed!LeavesAfterProvider]_vars
  /\ [Next]_vars /\ part = "filed" /\ [FiledFacts!RestoresBefore]_(FiledFacts!vars)
       => [Filed!RestoresBefore]_vars
PROOF
  BY FiledIs
    DEF Next, DeskNext, vars, Filed!vars, Filed!rowVars, Filed!mailVars, Filed!history

LEMMA FiledRuns ==
  Spec => \/ [](~(part = "filed"))
          \/ FiledFacts!Spec /\ [](part = "filed")
PROOF
<1>1. Spec /\ part = "filed" => [](part = "filed")
  BY FiledMoves, PTL DEF Spec
<1>2. Spec /\ ~(part = "filed") => [](~(part = "filed"))
  BY FiledMoves, PTL DEF Spec
<1>3. Spec /\ [](part = "filed") => FiledFacts!Spec
  BY FiledMoves, PTL DEF Spec, FiledFacts!Spec
<1> QED BY <1>1, <1>2, <1>3, PTL

LEMMA BusyIs ==
  /\ BusyFacts!ThreadAssumption
  /\ Busy!Init <=> BusyFacts!Init
  /\ [Busy!Next]_(Busy!vars) <=> [BusyFacts!Next]_(BusyFacts!vars)
  /\ [Busy!LeavesAfterProvider]_(Busy!vars)
       <=> [BusyFacts!LeavesAfterProvider]_(BusyFacts!vars)
  /\ [Busy!RestoresBefore]_(Busy!vars) <=> [BusyFacts!RestoresBefore]_(BusyFacts!vars)
PROOF
  BY InstancesAreFit
    DEF Busy!ThreadAssumption, Busy!Handlers, Busy!Init, Busy!Idle, Busy!Removals,
        Busy!Queue!NoJob, Busy!Next, Busy!UserStep, Busy!Read, Busy!Visible,
        Busy!UsesStatus, Busy!UsesPrevious, Busy!rowVars, Busy!mailVars, Busy!history,
        Busy!Write, Busy!Exists, Busy!Written, Busy!Restored, Busy!SnoozeAfter,
        Busy!RemoveWrite, Busy!Unfinished, Busy!RemoveFails, Busy!File, Busy!RemoveEnqueue,
        Busy!Queue!Added, Busy!SnoozeEnds, Busy!WakeSelect, Busy!WakeWrite,
        Busy!DeleterStep, Busy!Take, Busy!At, Busy!Queue!Taken, Busy!Goto, Busy!ReadThread,
        Busy!Job, Busy!Complete, Busy!Queue!Completed, Busy!MovesDone, Busy!Cleanup,
        Busy!GiveUp, Busy!Queue!AttemptFailed, Busy!ReadFailed, Busy!RestoreThread,
        Busy!MoveMail, Busy!Trashed, Busy!Lost, Busy!MovesFail, Busy!MailStep, Busy!Arrive,
        Busy!Assign, Busy!StoreMail, Busy!ZombieMove, Busy!Wander, Busy!Refind, Busy!Crash,
        Busy!Queue!Stalled, Busy!vars, Busy!LeavesAfterProvider, Busy!PassedOver,
        Busy!RestoresBefore, Busy!Restores, BusyFacts!ThreadAssumption, BusyFacts!Handlers,
        BusyFacts!Init, BusyFacts!Idle, BusyFacts!Removals, BusyFacts!Queue!NoJob,
        BusyFacts!Next, BusyFacts!UserStep, BusyFacts!Read, BusyFacts!Visible,
        BusyFacts!UsesStatus, BusyFacts!UsesPrevious, BusyFacts!rowVars, BusyFacts!mailVars,
        BusyFacts!history, BusyFacts!Write, BusyFacts!Exists, BusyFacts!Written,
        BusyFacts!Restored, BusyFacts!SnoozeAfter, BusyFacts!RemoveWrite,
        BusyFacts!Unfinished, BusyFacts!RemoveFails, BusyFacts!File,
        BusyFacts!RemoveEnqueue, BusyFacts!Queue!Added, BusyFacts!SnoozeEnds,
        BusyFacts!WakeSelect, BusyFacts!WakeWrite, BusyFacts!DeleterStep, BusyFacts!Take,
        BusyFacts!At, BusyFacts!Queue!Taken, BusyFacts!Goto, BusyFacts!ReadThread,
        BusyFacts!Job, BusyFacts!Complete, BusyFacts!Queue!Completed, BusyFacts!MovesDone,
        BusyFacts!Cleanup, BusyFacts!GiveUp, BusyFacts!Queue!AttemptFailed,
        BusyFacts!ReadFailed, BusyFacts!RestoreThread, BusyFacts!MoveMail,
        BusyFacts!Trashed, BusyFacts!Lost, BusyFacts!MovesFail, BusyFacts!MailStep,
        BusyFacts!Arrive, BusyFacts!Assign, BusyFacts!StoreMail, BusyFacts!ZombieMove,
        BusyFacts!Wander, BusyFacts!Refind, BusyFacts!Crash, BusyFacts!Queue!Stalled,
        BusyFacts!vars, BusyFacts!LeavesAfterProvider, BusyFacts!PassedOver,
        BusyFacts!RestoresBefore, BusyFacts!Restores

LEMMA BusyMoves ==
  /\ Init /\ part = "busy" => BusyFacts!Init
  /\ [Next]_vars => ((part = "busy")' <=> part = "busy")
  /\ [Next]_vars /\ part = "busy" => [BusyFacts!Next]_(BusyFacts!vars)
PROOF
  BY BusyIs
    DEF Init, DeskInit, Next, DeskNext, vars, Busy!vars, Busy!rowVars, Busy!mailVars,
        Busy!history

LEMMA BusySteps ==
  /\ [Next]_vars /\ part = "busy" /\ [BusyFacts!LeavesAfterProvider]_(BusyFacts!vars)
       => [Busy!LeavesAfterProvider]_vars
  /\ [Next]_vars /\ part = "busy" /\ [BusyFacts!RestoresBefore]_(BusyFacts!vars)
       => [Busy!RestoresBefore]_vars
PROOF
  BY BusyIs
    DEF Next, DeskNext, vars, Busy!vars, Busy!rowVars, Busy!mailVars, Busy!history

LEMMA BusyRuns ==
  Spec => \/ [](~(part = "busy"))
          \/ BusyFacts!Spec /\ [](part = "busy")
PROOF
<1>1. Spec /\ part = "busy" => [](part = "busy")
  BY BusyMoves, PTL DEF Spec
<1>2. Spec /\ ~(part = "busy") => [](~(part = "busy"))
  BY BusyMoves, PTL DEF Spec
<1>3. Spec /\ [](part = "busy") => BusyFacts!Spec
  BY BusyMoves, PTL DEF Spec, BusyFacts!Spec
<1> QED BY <1>1, <1>2, <1>3, PTL

LEMMA AgainIs ==
  /\ AgainFacts!ThreadAssumption
  /\ Again!Init <=> AgainFacts!Init
  /\ [Again!Next]_(Again!vars) <=> [AgainFacts!Next]_(AgainFacts!vars)
  /\ [Again!LeavesAfterProvider]_(Again!vars)
       <=> [AgainFacts!LeavesAfterProvider]_(AgainFacts!vars)
  /\ [Again!RestoresBefore]_(Again!vars) <=> [AgainFacts!RestoresBefore]_(AgainFacts!vars)
PROOF
  BY InstancesAreFit
    DEF Again!ThreadAssumption, Again!Handlers, Again!Init, Again!Idle, Again!Removals,
        Again!Queue!NoJob, Again!Next, Again!UserStep, Again!Read, Again!Visible,
        Again!UsesStatus, Again!UsesPrevious, Again!rowVars, Again!mailVars, Again!history,
        Again!Write, Again!Exists, Again!Written, Again!Restored, Again!SnoozeAfter,
        Again!RemoveWrite, Again!Unfinished, Again!RemoveFails, Again!File,
        Again!RemoveEnqueue, Again!Queue!Added, Again!SnoozeEnds, Again!WakeSelect,
        Again!WakeWrite, Again!DeleterStep, Again!Take, Again!At, Again!Queue!Taken,
        Again!Goto, Again!ReadThread, Again!Job, Again!Complete, Again!Queue!Completed,
        Again!MovesDone, Again!Cleanup, Again!GiveUp, Again!Queue!AttemptFailed,
        Again!ReadFailed, Again!RestoreThread, Again!MoveMail, Again!Trashed, Again!Lost,
        Again!MovesFail, Again!MailStep, Again!Arrive, Again!Assign, Again!StoreMail,
        Again!ZombieMove, Again!Wander, Again!Refind, Again!Crash, Again!Queue!Stalled,
        Again!vars, Again!LeavesAfterProvider, Again!PassedOver, Again!RestoresBefore,
        Again!Restores, AgainFacts!ThreadAssumption, AgainFacts!Handlers, AgainFacts!Init,
        AgainFacts!Idle, AgainFacts!Removals, AgainFacts!Queue!NoJob, AgainFacts!Next,
        AgainFacts!UserStep, AgainFacts!Read, AgainFacts!Visible, AgainFacts!UsesStatus,
        AgainFacts!UsesPrevious, AgainFacts!rowVars, AgainFacts!mailVars,
        AgainFacts!history, AgainFacts!Write, AgainFacts!Exists, AgainFacts!Written,
        AgainFacts!Restored, AgainFacts!SnoozeAfter, AgainFacts!RemoveWrite,
        AgainFacts!Unfinished, AgainFacts!RemoveFails, AgainFacts!File,
        AgainFacts!RemoveEnqueue, AgainFacts!Queue!Added, AgainFacts!SnoozeEnds,
        AgainFacts!WakeSelect, AgainFacts!WakeWrite, AgainFacts!DeleterStep,
        AgainFacts!Take, AgainFacts!At, AgainFacts!Queue!Taken, AgainFacts!Goto,
        AgainFacts!ReadThread, AgainFacts!Job, AgainFacts!Complete,
        AgainFacts!Queue!Completed, AgainFacts!MovesDone, AgainFacts!Cleanup,
        AgainFacts!GiveUp, AgainFacts!Queue!AttemptFailed, AgainFacts!ReadFailed,
        AgainFacts!RestoreThread, AgainFacts!MoveMail, AgainFacts!Trashed, AgainFacts!Lost,
        AgainFacts!MovesFail, AgainFacts!MailStep, AgainFacts!Arrive, AgainFacts!Assign,
        AgainFacts!StoreMail, AgainFacts!ZombieMove, AgainFacts!Wander, AgainFacts!Refind,
        AgainFacts!Crash, AgainFacts!Queue!Stalled, AgainFacts!vars,
        AgainFacts!LeavesAfterProvider, AgainFacts!PassedOver, AgainFacts!RestoresBefore,
        AgainFacts!Restores

LEMMA AgainMoves ==
  /\ Init /\ part = "again" => AgainFacts!Init
  /\ [Next]_vars => ((part = "again")' <=> part = "again")
  /\ [Next]_vars /\ part = "again" => [AgainFacts!Next]_(AgainFacts!vars)
PROOF
  BY AgainIs
    DEF Init, DeskInit, Next, DeskNext, vars, Again!vars, Again!rowVars, Again!mailVars,
        Again!history

LEMMA AgainSteps ==
  /\ [Next]_vars /\ part = "again" /\ [AgainFacts!LeavesAfterProvider]_(AgainFacts!vars)
       => [Again!LeavesAfterProvider]_vars
  /\ [Next]_vars /\ part = "again" /\ [AgainFacts!RestoresBefore]_(AgainFacts!vars)
       => [Again!RestoresBefore]_vars
PROOF
  BY AgainIs
    DEF Next, DeskNext, vars, Again!vars, Again!rowVars, Again!mailVars, Again!history

LEMMA AgainRuns ==
  Spec => \/ [](~(part = "again"))
          \/ AgainFacts!Spec /\ [](part = "again")
PROOF
<1>1. Spec /\ part = "again" => [](part = "again")
  BY AgainMoves, PTL DEF Spec
<1>2. Spec /\ ~(part = "again") => [](~(part = "again"))
  BY AgainMoves, PTL DEF Spec
<1>3. Spec /\ [](part = "again") => AgainFacts!Spec
  BY AgainMoves, PTL DEF Spec, AgainFacts!Spec
<1> QED BY <1>1, <1>2, <1>3, PTL

-----------------------------------------------------------------------------

\* FolderSync!NoMailSkipped in every instance the run checks: what lies below the
\* watermark of a folder (the UIDs a queue run asks for start there) has its row, whatever
\* runs overlap or fail.
THEOREM NothingIsSkipped == Spec => []NoMailSkipped
PROOF
<1>1. Spec => [](part = "deep" => Deep!NoMailSkipped)
  BY DeepIs, DeepRuns, DeepFacts!MailsAreNotSkipped, PTL
<1>2. Spec => [](part = "wide" => Wide!NoMailSkipped)
  BY WideIs, WideRuns, WideFacts!MailsAreNotSkipped, PTL
<1>3. Spec => [](part = "labelled" => Labelled!NoMailSkipped)
  BY LabelledIs, LabelledRuns, LabelledFacts!MailsAreNotSkipped, PTL
<1>4. Spec => [](part = "failing" => Failing!NoMailSkipped)
  BY FailingIs, FailingRuns, FailingFacts!MailsAreNotSkipped, PTL
<1>5. QED  BY <1>1, <1>2, <1>3, <1>4, PTL DEF NoMailSkipped

\* FolderSync!NoMailTwice in every instance: a mail never has two rows although two runs look
\* for it before either creates it, unless it wandered, or lies in several folders and two
\* runs set out to store it at once (the unique index goes by the folder).
THEOREM NothingIsStoredTwice == Spec => []NoMailTwice
PROOF
<1>1. Spec => [](part = "deep" => Deep!NoMailTwice)
  BY DeepIs, DeepRuns, DeepFacts!MailsAreStoredOnce, PTL
<1>2. Spec => [](part = "wide" => Wide!NoMailTwice)
  BY WideIs, WideRuns, WideFacts!MailsAreStoredOnce, PTL
<1>3. Spec => [](part = "labelled" => Labelled!NoMailTwice)
  BY LabelledIs, LabelledRuns, LabelledFacts!MailsAreStoredOnce, PTL
<1>4. Spec => [](part = "failing" => Failing!NoMailTwice)
  BY FailingIs, FailingRuns, FailingFacts!MailsAreStoredOnce, PTL
<1>5. QED  BY <1>1, <1>2, <1>3, <1>4, PTL DEF NoMailTwice

\* FolderSync!StoredStays in every instance: no step of a run takes a stored mail away,
\* unless it left its folder or a search older than its row deletes it.
THEOREM WhatIsStoredStays == Spec => StoredStays
PROOF
<1>1. Spec => [][part = "deep" => Deep!KeepsStored]_vars
  BY DeepIs, DeepSteps, DeepRuns, DeepFacts!StoredMailsStay, PTL
    DEF Spec, DeepFacts!StoredStays
<1>2. Spec => [][part = "wide" => Wide!KeepsStored]_vars
  BY WideIs, WideSteps, WideRuns, WideFacts!StoredMailsStay, PTL
    DEF Spec, WideFacts!StoredStays
<1>3. Spec => [][part = "labelled" => Labelled!KeepsStored]_vars
  BY LabelledIs, LabelledSteps, LabelledRuns, LabelledFacts!StoredMailsStay, PTL
    DEF Spec, LabelledFacts!StoredStays
<1>4. Spec => [][part = "failing" => Failing!KeepsStored]_vars
  BY FailingIs, FailingSteps, FailingRuns, FailingFacts!StoredMailsStay, PTL
    DEF Spec, FailingFacts!StoredStays
<1>5. QED  BY <1>1, <1>2, <1>3, <1>4, PTL DEF StoredStays

\* ThreadLifecycle!DeletedAfterProvider in every instance: a mail leaves the database only
\* when the provider has it in the trash, when the job passed it over (no uid, a stale one,
\* nothing found at the provider), or when it was stored while the removal was running.
THEOREM MailsLeaveLast == Spec => DeletedAfterProvider
PROOF
<1>1. Spec => [][part = "crowd" => Crowd!LeavesAfterProvider]_vars
  BY CrowdIs, CrowdSteps, CrowdRuns, CrowdFacts!RemovedAfterProvider, PTL
    DEF Spec, CrowdFacts!DeletedAfterProvider
<1>2. Spec => [][part = "filed" => Filed!LeavesAfterProvider]_vars
  BY FiledIs, FiledSteps, FiledRuns, FiledFacts!RemovedAfterProvider, PTL
    DEF Spec, FiledFacts!DeletedAfterProvider
<1>3. Spec => [][part = "busy" => Busy!LeavesAfterProvider]_vars
  BY BusyIs, BusySteps, BusyRuns, BusyFacts!RemovedAfterProvider, PTL
    DEF Spec, BusyFacts!DeletedAfterProvider
<1>4. Spec => [][part = "again" => Again!LeavesAfterProvider]_vars
  BY AgainIs, AgainSteps, AgainRuns, AgainFacts!RemovedAfterProvider, PTL
    DEF Spec, AgainFacts!DeletedAfterProvider
<1>5. QED  BY <1>1, <1>2, <1>3, <1>4, PTL DEF DeletedAfterProvider

\* ThreadLifecycle!RestoreIsExact in every instance: a removal that fails for good gives the
\* thread the status it had before, unless somebody else worked on the thread meanwhile.
THEOREM FailuresRestore == Spec => RestoreIsExact
PROOF
<1>1. Spec => [][part = "crowd" => Crowd!RestoresBefore]_vars
  BY CrowdIs, CrowdSteps, CrowdRuns, CrowdFacts!RestoresAreExact, PTL
    DEF Spec, CrowdFacts!RestoreIsExact
<1>2. Spec => [][part = "filed" => Filed!RestoresBefore]_vars
  BY FiledIs, FiledSteps, FiledRuns, FiledFacts!RestoresAreExact, PTL
    DEF Spec, FiledFacts!RestoreIsExact
<1>3. Spec => [][part = "busy" => Busy!RestoresBefore]_vars
  BY BusyIs, BusySteps, BusyRuns, BusyFacts!RestoresAreExact, PTL
    DEF Spec, BusyFacts!RestoreIsExact
<1>4. Spec => [][part = "again" => Again!RestoresBefore]_vars
  BY AgainIs, AgainSteps, AgainRuns, AgainFacts!RestoresAreExact, PTL
    DEF Spec, AgainFacts!RestoreIsExact
<1>5. QED  BY <1>1, <1>2, <1>3, <1>4, PTL DEF RestoreIsExact
=============================================================================
