------------------------- MODULE ConversationFiles --------------------------
(***************************************************************************)
(* The files of one conversation (packages/files): objects under its       *)
(* prefix of an R2 bucket, uploaded by the browser, published by a tool of *)
(* the agent that is run again after a crash, listed page by page and      *)
(* deleted, all while the others go on.  The bucket is external: it is     *)
(* strongly consistent and lists in the order of the keys.                 *)
(***************************************************************************)
EXTENDS Integers, FiniteSets, FiniteSetsExt

CONSTANTS
  Key,          \* the keys under the prefix, in their order; 0 is no cursor
  UploadKey,    \* those the browser may mint
  Content,      \* bytes and the name they are published under
  KeyOf,        \* contentFileId: the key of each content
  Limit,        \* how many objects a page may scan
  DefaultLimit, \* and does where the caller names no limit
  Kind,         \* "upload", "output"
  Anything      \* no filter

ASSUME FilesAssumption ==
  /\ Key \subseteq Nat \ {0} /\ UploadKey \subseteq Key
  /\ KeyOf \in [Content -> Key \ UploadKey]
  /\ \A x, y \in Content : KeyOf[x] = KeyOf[y] => x = y
  /\ DefaultLimit \in Limit /\ Limit \subseteq Nat \ {0}
  /\ Anything \notin Kind

VARIABLES
  bucket,   \* the objects: what is stored under each key, absent keys left out
  walk,     \* a caller that follows nextCursor
  tool,     \* publish_file or create_finance_file of the agent
  panel     \* the file list of the sidebar and the deletion it asked for

fileVars == <<bucket, walk, tool, panel>>

Absent == [kind |-> "absent", content |-> "none", readable |-> FALSE]
Stored(k) == bucket[k] # Absent

NoWalk == [stage |-> "idle", kind |-> Anything, cursor |-> 0, items |-> {},
           twice |-> {}, stayed |-> {}]
NoTool == [stage |-> "idle", content |-> "none"]

FilesInit ==
  /\ bucket = [k \in Key |-> Absent]
  /\ walk = NoWalk /\ tool = NoTool
  /\ panel = [items |-> {}, more |-> FALSE, deleting |-> 0, stage |-> "idle"]

(* write: size and metadata are checked before the put, which replaces.    *)
Put(k, kind, content) ==
  bucket' = [bucket EXCEPT ![k] = [kind |-> kind, content |-> content, readable |-> TRUE]]

(* delete of the bucket says nothing of what was there. *)
Erase(k) ==
  /\ bucket' = [bucket EXCEPT ![k] = Absent]
  /\ walk' = [walk EXCEPT !.stayed = @ \ {k}]

(* PUT /files/{fileId} under a fresh id.                                   *)
UploadFile(k) ==
  /\ k \in UploadKey /\ ~Stored(k) /\ Put(k, "upload", "bytes")
  /\ UNCHANGED <<walk, tool, panel>>

(* An object whose metadata the read path refuses: written by other code.  *)
Damage(k) ==
  /\ Stored(k) /\ bucket[k].readable
  /\ bucket' = [bucket EXCEPT ![k].readable = FALSE]
  /\ walk' = [walk EXCEPT !.stayed = @ \ {k}]
  /\ UNCHANGED <<tool, panel>>

-----------------------------------------------------------------------------
(* publish inside step.do: the step is run again when the process ended    *)
(* before its result was recorded.                                         *)

ContentFileId(content) == KeyOf[content]

CallTool(content) ==
  /\ tool.stage = "idle" /\ tool' = [stage |-> "step", content |-> content]
  /\ UNCHANGED <<bucket, walk, panel>>

Publish ==
  /\ tool.stage = "step"
  /\ Put(ContentFileId(tool.content), "output", tool.content)
  /\ tool' = [tool EXCEPT !.stage = "written"]
  /\ UNCHANGED <<walk, panel>>

AgentCrashes ==
  /\ tool.stage = "written" /\ tool' = [tool EXCEPT !.stage = "step"]
  /\ UNCHANGED <<bucket, walk, panel>>

(* The result is recorded and written to the chat, or the step failed: the *)
(* path is no file, or its bytes break a rule of the files.                *)
ToolReturns ==
  /\ tool.stage \in {"step", "written"} /\ tool' = NoTool
  /\ UNCHANGED <<bucket, walk, panel>>

-----------------------------------------------------------------------------
(* list: the bucket applies the limit, then unreadable objects and those   *)
(* of another kind are left out.                                           *)

After(cursor) == {k \in Key : Stored(k) /\ k > cursor}

Scanned(cursor, limit) ==
  {k \in After(cursor) : Cardinality({j \in After(cursor) : j <= k}) <= limit}

Items(keys, kind) ==
  {k \in keys : bucket[k].readable /\ (kind = Anything \/ bucket[k].kind = kind)}

(* A variation: a page with fewer items than asked for is the last. *)
ShortIsLast(cursor, limit, kind) ==
  LET page == Scanned(cursor, limit) IN
  IF Cardinality(Items(page, kind)) < limit THEN 0 ELSE Max(page)

NextCursor(cursor, limit, kind) ==
  LET page == Scanned(cursor, limit) IN
  IF page # After(cursor) THEN Max(page) ELSE 0

StartWalk(kind) ==
  /\ walk.stage # "walking"
  /\ walk' = [NoWalk EXCEPT !.stage = "walking", !.kind = kind,
                            !.stayed = Items({k \in Key : Stored(k)}, kind)]
  /\ UNCHANGED <<bucket, tool, panel>>

ListPage(limit) ==
  LET found == Items(Scanned(walk.cursor, limit), walk.kind)
      next == NextCursor(walk.cursor, limit, walk.kind)
  IN
  /\ walk.stage = "walking"
  /\ walk' = [walk EXCEPT !.cursor = next, !.items = @ \cup found,
                          !.twice = @ \cup (walk.items \cap found),
                          !.stage = IF next = 0 THEN "whole" ELSE "walking"]
  /\ UNCHANGED <<bucket, tool, panel>>

-----------------------------------------------------------------------------
(* The sidebar shows the first page and asks for one deletion at a time.   *)

FirstPage ==
  /\ panel.stage = "idle"
  /\ panel' = [panel EXCEPT !.items = Items(Scanned(0, DefaultLimit), Anything),
                            !.more = NextCursor(0, DefaultLimit, Anything) # 0]
  /\ UNCHANGED <<bucket, walk, tool>>

(* delete: head, then delete; its answer may be lost.                      *)
AskDeletion(k) ==
  /\ panel.stage = "idle" /\ k \in panel.items
  /\ panel' = [panel EXCEPT !.stage = IF Stored(k) THEN "found" ELSE "idle",
                            !.deleting = IF Stored(k) THEN k ELSE 0]
  /\ UNCHANGED <<bucket, walk, tool>>

DeleteFile ==
  /\ panel.stage = "found" /\ Erase(panel.deleting)
  /\ panel' = [panel EXCEPT !.stage = "deleted"]
  /\ UNCHANGED tool

(* Its answer: the list is asked for again, or an error is shown.          *)
DeletionAnswered ==
  /\ panel.stage \in {"found", "deleted"}
  /\ panel' = [panel EXCEPT !.stage = "idle", !.deleting = 0]
  /\ UNCHANGED <<bucket, walk, tool>>

FilesNext ==
  \/ \E k \in Key : UploadFile(k) \/ Damage(k) \/ AskDeletion(k)
  \/ \E content \in Content : CallTool(content)
  \/ Publish \/ AgentCrashes \/ ToolReturns
  \/ \E kind \in Kind \cup {Anything} : StartWalk(kind)
  \/ \E limit \in Limit : ListPage(limit)
  \/ FirstPage \/ DeleteFile \/ DeletionAnswered

FilesSpec == FilesInit /\ [][FilesNext]_fileVars

-----------------------------------------------------------------------------
(* Following nextCursor until it is null lists every readable file of the  *)
(* kind that was there from the first page to the last, and none twice,    *)
(* whatever was uploaded, published or deleted meanwhile (list).           *)
FilesListedWhole ==
  walk.stage = "whole" => walk.stayed \subseteq walk.items /\ walk.twice = {}

=============================================================================
