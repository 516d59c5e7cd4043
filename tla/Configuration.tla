--------------------------- MODULE Configuration ---------------------------
(***************************************************************************)
(* The three programs and the files in which each keeps its settings.  The *)
(* server and the command line client read theirs at the start and save it *)
(* once (Startup); the Qt clients show, edit and save theirs all the time  *)
(* (WindowProfiles).  They share no file: a behaviour is that of one       *)
(* program, from its first start on.                                       *)
(***************************************************************************)
EXTENDS Startup

CONSTANTS Text, MaxProfiles, MaxEdits

\* of WindowProfiles
ASSUME ProfilesAssumption ==
  /\ "" \in Text
  /\ MaxProfiles \in Nat \ {0}
  /\ MaxEdits \in Nat

VARIABLES
  file, profiles, list, shown, fields, dialog, requested, online, made, given, changed, edits

windowVars ==
  <<file, profiles, list, shown, fields, dialog, requested, online, made, given, changed, edits>>

Window == INSTANCE WindowProfiles WITH config <- profiles

ConfigurationInit == Init /\ Window!Init

StartupNext == Next /\ UNCHANGED windowVars
WindowNext  == starts = 0 /\ Window!Next /\ UNCHANGED vars

ConfigurationNext ==
  \/ made = 0 /\ StartupNext
  \/ program = "cli" /\ WindowNext

ConfigurationSpec ==
  ConfigurationInit /\ [][ConfigurationNext]_<<vars, windowVars>>

-----------------------------------------------------------------------------
\* What the window's settings dialog must leave alone (settingsdialog.cpp), of
\* WindowProfiles.
UntouchedKept == Window!UntouchedKept

\* The credentials a Qt client's attempts send (handleConnected), of WindowProfiles.
SentAsGiven == Window!SentAsGiven

=============================================================================
