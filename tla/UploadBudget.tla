---------------------------- MODULE UploadBudget ----------------------------
(***************************************************************************)
(* The upload rate of the workspace (consumeUploadBudget in                *)
(* server_common/tcpserver.cpp): one window at a time, the first from the  *)
(* start, each other one opened by the first upload that finds the         *)
(* previous one over.  One mutex, so one step.                             *)
(***************************************************************************)
EXTENDS Integers

CONSTANTS
  UploadLimit,    \* kWorkspaceUploadBytesPerMinute
  Window          \* one minute, in ticks

ASSUME BudgetAssumption ==
  /\ UploadLimit \in Nat
  /\ Window \in Nat \ {0}

VARIABLES
  uploaded,       \* uploadedBytesInWindow_
  windowAge       \* now - uploadWindowStartedAt_; Window stands for Window or more

budgetVars == <<uploaded, windowAge>>

BudgetType ==
  /\ uploaded \in 0..UploadLimit
  /\ windowAge \in 0..Window

\* uploadWindowStartedAt_ begins at now(): the first window is running from the start
BudgetInit == uploaded = 0 /\ windowAge = 0

WindowOver == windowAge >= Window
InWindow == IF WindowOver THEN 0 ELSE uploaded

\* plausible slip: each upload is held to the limit by itself
BudgetAllows_Single(bytes) == bytes <= UploadLimit
BudgetAllows(bytes) == bytes <= UploadLimit - InWindow

\* the window is renewed whether the upload is then allowed or not
ConsumeBudget(bytes) ==
  /\ BudgetAllows(bytes)
  /\ uploaded' = InWindow + bytes
  /\ windowAge' = IF WindowOver THEN 0 ELSE windowAge

RefuseBudget(bytes) ==
  /\ ~BudgetAllows(bytes)
  /\ uploaded' = InWindow
  /\ windowAge' = IF WindowOver THEN 0 ELSE windowAge

BudgetTick ==
  /\ windowAge' = IF WindowOver THEN Window ELSE windowAge + 1
  /\ UNCHANGED uploaded

=============================================================================
