------------------------------ MODULE AgentDownload ------------------------------
(***************************************************************************)
(* The download command of the transfer agent (src/src/sfss/agent.py) and  *)
(* the files it leaves: output.part, output and the manifest beside it.    *)
(* One process at a time downloads to an output, as a user who owns the    *)
(* files.  A file is an inode, so that a link can give it two names; it    *)
(* holds the blocks of the objects it was written from.                    *)
(***************************************************************************)
EXTENDS Naturals, SequencesExt

CONSTANTS Short, Long,  \* objects of one block, and of two
          NoRemote,
          MaxInodes,    \* bounds of the model: files created, commands given,
          MaxCommands,
          MaxDeaths     \* runs killed or cut off

ASSUME DownloadConstants ==
  /\ NoRemote \notin Short \cup Long /\ Short \cap Long = {}
  /\ MaxCommands \in Nat /\ MaxDeaths \in Nat
  /\ MaxInodes \in Nat /\ MaxInodes >= MaxCommands + MaxDeaths

VARIABLES want,       \* the command given: its object, and whether it may overwrite
          printed,    \* it succeeded
          content,    \* the blocks of each inode
          sealed,     \* inodes of mode 0400
          part, out,  \* the inodes those names are bound to
          manifest,   \* the object the manifest names
          fetch,      \* the run
          delivered,  \* the object each inode was committed as
          aliased,    \* inodes a run that died left both names bound to
          commands, deaths

downVars == <<want, printed, content, sealed, part, out, manifest, fetch, delivered,
              aliased, commands, deaths>>

RemoteObjects == Short \cup Long
Inodes        == 1..MaxInodes
NoFile        == 0
Whole(o)      == IF o \in Short THEN <<<<o, 1>>>> ELSE <<<<o, 1>>, <<o, 2>>>>
NotCreated    == {i \in Inodes : content[i] = <<>> /\ i \notin {part, out} /\ delivered[i] = NoRemote}

DownInit ==
  /\ want = [object |-> NoRemote, over |-> FALSE]
  /\ printed = FALSE
  /\ content = [i \in Inodes |-> <<>>]
  /\ sealed = {}
  /\ part = NoFile /\ out = NoFile
  /\ manifest = NoRemote
  /\ fetch = "idle"
  /\ delivered = [i \in Inodes |-> NoRemote]
  /\ aliased = {}
  /\ commands = 0 /\ deaths = 0

\* What each step leaves alone.
fileVars == <<content, sealed, part, out, manifest>>
askVars  == <<want, printed, commands>>
pastVars == <<delivered, aliased, deaths>>

------------------------------------------------------------------------------
(* The user.                                                               *)

Command(o, over) ==
  /\ fetch = "idle" /\ commands < MaxCommands
  /\ want' = [object |-> o, over |-> over]
  /\ printed' = FALSE
  /\ commands' = commands + 1
  /\ UNCHANGED <<fileVars, fetch, pastVars>>

\* What was delivered is moved elsewhere; the manifest stays.
TakeAway ==
  /\ fetch = "idle" /\ out # NoFile
  /\ out' = NoFile
  /\ UNCHANGED <<askVars, content, sealed, part, manifest, fetch, pastVars>>

------------------------------------------------------------------------------
(* A run.  One that ends with an error leaves what it wrote.               *)

Offset == IF part = NoFile THEN 0 ELSE Len(content[part])

\* Mutant: a partial file that is already complete is asked for again.
AlwaysFetch == "fetch"

FirstStep == IF Offset < Len(Whole(want.object)) THEN "fetch" ELSE "verify"

\* A complete partial file is not fetched, but the server must still vouch for the object.
BeginRun ==
  /\ fetch = "idle" /\ want.object # NoRemote /\ ~printed
  /\ out # NoFile => want.over
  /\ part \notin sealed
  /\ Offset <= Len(Whole(want.object))
  /\ fetch' = FirstStep
  /\ UNCHANGED <<askVars, fileVars, pastVars>>

\* The range that is missing, or the whole object where a proxy drops the range.  There is
\* no range beyond the end.
Fetch ==
  /\ fetch = "fetch"
  /\ IF Offset >= Len(Whole(want.object))
     THEN fetch' = "idle" /\ UNCHANGED <<content, part>>
     ELSE /\ fetch' = "write"
          /\ \/ /\ part = NoFile /\ NotCreated # {}
                /\ part' = CHOOSE i \in NotCreated : TRUE
                /\ UNCHANGED content
             \/ /\ part # NoFile
                /\ content' \in {content, [content EXCEPT ![part] = <<>>]}
                /\ UNCHANGED part
  /\ UNCHANGED <<askVars, sealed, out, manifest, pastVars>>

WriteBlock ==
  /\ fetch = "write"
  /\ Offset < Len(Whole(want.object))
  /\ content' = [content EXCEPT ![part] = Append(@, Whole(want.object)[Offset + 1])]
  /\ UNCHANGED <<askVars, sealed, part, out, manifest, fetch, pastVars>>

\* A response that is cut off ends like one that is complete, and fails to verify.
EndOfBody ==
  /\ fetch = "write"
  /\ \/ Offset = Len(Whole(want.object)) /\ UNCHANGED deaths
     \/ Offset < Len(Whole(want.object)) /\ deaths < MaxDeaths /\ deaths' = deaths + 1
  /\ fetch' = "verify"
  /\ UNCHANGED <<askVars, fileVars, delivered, aliased>>

\* Mutant: the digest is not compared.
SizeFits == Len(content[part]) = Len(Whole(want.object))

Verified == content[part] = Whole(want.object)

Verify ==
  /\ fetch = "verify"
  /\ fetch' = IF Verified THEN IF want.over THEN "replace" ELSE "link" ELSE "idle"
  /\ UNCHANGED <<askVars, fileVars, pastVars>>

Delivered(i) == delivered' = [delivered EXCEPT ![i] = want.object]

\* Renaming a file onto another name of itself does nothing.
Replace ==
  /\ fetch = "replace"
  /\ out' = part
  /\ part' = IF out = part THEN part ELSE NoFile
  /\ Delivered(part)
  /\ fetch' = "seal"
  /\ UNCHANGED <<askVars, content, sealed, manifest, aliased, deaths>>

\* Nothing can have taken the name of the output since the run began.
Link ==
  /\ fetch = "link" /\ out = NoFile
  /\ out' = part
  /\ Delivered(part)
  /\ fetch' = "unlink"
  /\ UNCHANGED <<askVars, content, sealed, part, manifest, aliased, deaths>>

DropPart ==
  /\ fetch = "unlink"
  /\ part' = NoFile
  /\ fetch' = "seal"
  /\ UNCHANGED <<askVars, content, sealed, out, manifest, pastVars>>

Seal ==
  /\ fetch = "seal"
  /\ sealed' = sealed \cup {out}
  /\ fetch' = "describe"
  /\ UNCHANGED <<askVars, content, part, out, manifest, pastVars>>

Describe ==
  /\ fetch = "describe"
  /\ manifest' = want.object
  /\ printed' = TRUE
  /\ fetch' = "idle"
  /\ UNCHANGED <<want, commands, content, sealed, part, out, pastVars>>

FetchDies ==
  /\ fetch # "idle" /\ deaths < MaxDeaths
  /\ fetch' = "idle"
  /\ deaths' = deaths + 1
  /\ aliased' = IF fetch = "unlink" THEN aliased \cup {out} ELSE aliased
  /\ UNCHANGED <<askVars, fileVars, delivered>>

FetchStep == \/ BeginRun \/ Fetch \/ WriteBlock \/ EndOfBody \/ Verify
             \/ Replace \/ Link \/ DropPart \/ Seal \/ Describe

DownNext == \/ FetchStep \/ FetchDies \/ TakeAway
            \/ \E o \in RemoteObjects, over \in BOOLEAN : Command(o, over)

DownSpec == DownInit /\ [][DownNext]_downVars

\* A command that failed is given again, and the server answers.
DownFairness == WF_downVars(FetchStep)

------------------------------------------------------------------------------
(* Properties.                                                             *)

\* Whatever was delivered holds the object it was delivered as, and nothing written later
\* reaches it: not a run for another object, not one that overwrites.  The exception is a
\* run that dies after it linked the output and before it unlinked the partial file: the
\* next run resumes into the file that was delivered.  And success means that output and
\* manifest are those of the object asked for, whatever earlier runs left under the names.
DeliveredIsIntact ==
  /\ \A i \in Inodes \ aliased : delivered[i] # NoRemote => content[i] = Whole(delivered[i])
  /\ printed => /\ manifest = want.object
                /\ out # NoFile => delivered[out] = want.object

\* What no further run of the command gets past.
Stuck == \/ out # NoFile /\ ~want.over
         \/ part \in sealed
         \/ part # NoFile /\ ~IsPrefix(content[part], Whole(want.object))

\* A download that is not given up ends, whatever runs were cut off and however much each
\* left: unless an output is in the way, or the partial file is of another object.
DownloadsEnd == want.object # NoRemote ~> printed \/ Stuck
==============================================================================
