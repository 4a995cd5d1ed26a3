---------------------------- MODULE AtomicFiles ----------------------------
(***************************************************************************)
(* gateway/identity/store.go, readJSON and writeJSON: files replaced as a  *)
(* whole, by os.WriteFile to <path>.tmp and os.Rename to <path>.           *)
(*                                                                         *)
(* A store's mutex makes the writes of one process exclusive.  Nothing     *)
(* keeps two processes apart, and they use the same name for the           *)
(* temporary file: one may truncate what the other has written, or rename  *)
(* what the other has only truncated.  A descriptor follows its file when  *)
(* that is renamed, so a late write may go to <path> itself.               *)
(***************************************************************************)
EXTENDS Naturals, FiniteSets

CONSTANTS Files, Procs, None,
          Truncated,  \* content of a file of length 0
          Corrupt     \* content that json.Unmarshal rejects

Torn == {Truncated, Corrupt}

VARIABLES file,      \* file[f]: content of <path>
          tmp,       \* tmp[f]: content of <path>.tmp, or None
          wr,        \* wr[p]: the writeJSON of process p, from its read on, or None
          contended  \* history: files that two processes wrote at once

fileVars == <<file, tmp, wr, contended>>

(* The descriptor of a writer refers to the file now at <path>.tmp, to the *)
(* one now at <path>, or to one no longer linked.                          *)
Writer(Data) == [f : Files, data : Data, step : {"truncate", "write", "rename"},
                 fd : {"none", "tmp", "path", "unlinked"}]

FilesInit(content) == /\ file = content
                      /\ tmp = [f \in Files |-> None]
                      /\ wr = [p \in Procs |-> None]
                      /\ contended = {}

Writing(q, f) == wr[q] # None /\ wr[q].f = f

(* A process has read what it needs and is about to write data to f.       *)
Starting(f, data) ==
    [f |-> f, data |-> data, step |-> "truncate", fd |-> "none"]

Contended(p, f) == contended \cup {g \in {f} : \E q \in Procs \ {p} : Writing(q, g)}

BeginWrite(p, f, data) ==
    /\ wr[p] = None
    /\ wr' = [wr EXCEPT ![p] = Starting(f, data)]
    /\ contended' = Contended(p, f)
    /\ UNCHANGED <<file, tmp>>

\* Mutant: the file is written in place.
TruncateInPlace(p) ==
    /\ wr[p] # None /\ wr[p].step = "truncate"
    /\ file' = [file EXCEPT ![wr[p].f] = Truncated]
    /\ wr' = [wr EXCEPT ![p].step = "write", ![p].fd = "path"]
    /\ UNCHANGED <<tmp, contended>>

(* os.WriteFile opens the temporary file, truncating or creating it ...    *)
Truncate(p) ==
    /\ wr[p] # None /\ wr[p].step = "truncate"
    /\ tmp' = [tmp EXCEPT ![wr[p].f] = Truncated]
    /\ wr' = [wr EXCEPT ![p].step = "write", ![p].fd = "tmp"]
    /\ UNCHANGED <<file, contended>>

(* ... and writes from offset 0: over a longer content its tail remains.   *)
Over(old, data) == IF old = Truncated THEN {data} ELSE {data, Corrupt}

Write(p) ==
    /\ wr[p] # None /\ wr[p].step = "write"
    /\ wr' = [wr EXCEPT ![p].step = "rename"]
    /\ LET f == wr[p].f IN
       \/ /\ wr[p].fd = "tmp"
          /\ \E c \in Over(tmp[f], wr[p].data) : tmp' = [tmp EXCEPT ![f] = c]
          /\ UNCHANGED file
       \/ /\ wr[p].fd = "path"
          /\ \E c \in Over(file[f], wr[p].data) : file' = [file EXCEPT ![f] = c]
          /\ UNCHANGED tmp
       \/ /\ wr[p].fd = "unlinked"
          /\ UNCHANGED <<file, tmp>>
    /\ UNCHANGED contended

(* os.Rename moves whatever is at <path>.tmp by now.  The writer goes on   *)
(* with next, a second write under the same lock, or is done (None).       *)
Moved(fd) == CASE fd = "tmp" -> "path" [] fd = "path" -> "unlinked" [] OTHER -> fd

Rename(p, next) ==
    /\ wr[p] # None /\ wr[p].step = "rename"
    /\ LET f == wr[p].f IN
       /\ tmp[f] # None
       /\ file' = [file EXCEPT ![f] = tmp[f]]
       /\ tmp' = [tmp EXCEPT ![f] = None]
       /\ wr' = [q \in Procs |-> IF q = p THEN next
                               ELSE IF Writing(q, f) THEN [wr[q] EXCEPT !.fd = Moved(@)]
                               ELSE wr[q]]
    /\ contended' = IF next = None THEN contended ELSE Contended(p, next.f)

(* Another process has renamed it: ENOENT.                                 *)
RenameFails(p) ==
    /\ wr[p] # None /\ wr[p].step = "rename"
    /\ tmp[wr[p].f] = None
    /\ wr' = [wr EXCEPT ![p] = None]
    /\ UNCHANGED <<file, tmp, contended>>

(* A writer stops, perhaps in the middle of its data.  Its temporary file  *)
(* remains, but every writer truncates before it renames: unless another   *)
(* process has it open, what is in it will not be seen and None stands for *)
(* it.                                                                     *)
InData(p, f, fd) == Writing(p, f) /\ wr[p].step = "write" /\ wr[p].fd = fd

Stops(p) ==
    /\ wr' = [wr EXCEPT ![p] = None]
    /\ \E partly \in BOOLEAN :
        /\ file' = [f \in Files |-> IF partly /\ InData(p, f, "path") THEN Corrupt ELSE file[f]]
        /\ tmp' = [f \in Files |-> IF Writing(p, f) /\ ~\E q \in Procs \ {p} : Writing(q, f) THEN None
                                   ELSE IF partly /\ InData(p, f, "tmp") THEN Corrupt ELSE tmp[f]]
    /\ UNCHANGED contended

(* os.WriteFile fails: the disk is full, the file cannot be opened.        *)
WriteFails(p) == wr[p] # None /\ wr[p].step \in {"truncate", "write"} /\ Stops(p)

(* The process is killed.                                                  *)
Killed(p) == Stops(p)

(* A crash or an error at any point of a write leaves the old or the new   *)
(* content: only two processes writing one file at once can leave it cut   *)
(* or unreadable.                                                          *)
IntactUnlessContended == \A f \in Files \ contended : file[f] \notin Torn
=============================================================================
