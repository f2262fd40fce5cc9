----------------------------- MODULE SysTablespace -----------------------------
(***************************************************************************)
(* The system tablespace's data files at server startup, in               *)
(* storage/innobase/fsp/fsp0sysspace.cc: SysTablespace::parse_params      *)
(* (both passes over innodb_data_file_path), normalize_size,              *)
(* check_file_spec with check_file_status, file_not_found and file_found, *)
(* open_or_create with open_file, create_file, check_size and set_size,   *)
(* read_lsn_and_check_flags, and get_increment for the autoextending last *)
(* file.                                                                   *)
(*                                                                         *)
(* The data files persist across crashes and restarts; everything else is *)
(* rebuilt at each startup.  Between two runs the administrator may edit  *)
(* innodb_data_file_path or delete a file.  A file path is a model value; *)
(* a size is in pages; a database is a generation number stamped on the   *)
(* files that hold its pages.                                             *)
(***************************************************************************)
EXTENDS Integers, Sequences, FiniteSets

CONSTANTS
  Paths,        \* data file paths
  SupportsRaw,  \* parse_params(..., supports_raw)
  Bootstrap,    \* opt_bootstrap
  PagesPerMB,   \* 1 << (20 - srv_page_size_shift)
  MinSize,      \* min_expected_size of check_file_spec, in pages
  AutoextendIncrement, \* get_autoextend_increment(), in pages
  DiskCap,      \* free space of the file system, in pages
  MaxGen,       \* bound on the databases created
  Inputs,       \* the innodb_data_file_path values the server is started with
  Written       \* the values it may hold before the first startup

(* innodb_data_file_path is a string; Ch(s, i) is its i-th character, *)
(* and "" past the end stands for the terminating '\0'.                  *)
Ch(s, i) == IF i \in 1 .. Len(s) THEN SubSeq(s, i, i) ELSE ""

(* strncmp(s + i, w, strlen(w)) == 0 *)
At(s, i, w) == i + Len(w) - 1 <= Len(s) /\ SubSeq(s, i, i + Len(w) - 1) = w

Digits == "0123456789"
IsDigit(c) == \E d \in 1 .. 10 : SubSeq(Digits, d, d) = c
DigitOf(c) == (CHOOSE d \in 1 .. 10 : SubSeq(Digits, d, d) = c) - 1

(* The least of a nonempty set of positions. *)
Least(js) == CHOOSE j \in js : \A k \in js : j <= k

(* The positions a scan from i may stop at: up to the terminating '\0' *)
(* at Len(s) + 1, which, like anything past it, stops every scan here.   *)
Span(s, i) == i .. IF i > Len(s) THEN i ELSE Len(s) + 1

(* The digits from i up to endp e, read as a decimal number. *)
DecimalTo(s, i, e) ==
  LET v[k \in i .. e] == IF k = i THEN 0 ELSE 10 * v[k - 1] + DigitOf(Ch(s, k - 1))
  IN [n |-> v[e], end |-> e]

(* strtoul(s + i, &endp, 10) over decimal digits: the value and endp;  *)
(* with no digit, 0 and endp = s + i.                                    *)
Strtoul(s, i) == DecimalTo(s, i, Least({j \in Span(s, i) : ~IsDigit(Ch(s, j))}))

(* The unit letter after the number r: G = *1024, M = as is, K = /1024, *)
(* else bytes; a unit letter is consumed.                                *)
UnitsOf(s, r) ==
  LET u == Ch(s, r.end) IN
  CASE u \in {"G", "g"} -> [megs |-> r.n * 1024, end |-> r.end + 1]
    [] u \in {"M", "m"} -> [megs |-> r.n, end |-> r.end + 1]
    [] u \in {"K", "k"} -> [megs |-> r.n \div 1024, end |-> r.end + 1]
    [] OTHER            -> [megs |-> r.n \div (1024 * 1024), end |-> r.end]

(* parse_units: strtoul, then the unit. *)
ParseUnits(s, i) == UnitsOf(s, Strtoul(s, i))

(* The file path ends at the first ':' that is not followed by '\', '/' *)
(* or ':' (a Windows drive or raw partition name), or at the end.        *)
PathEnd(s, i) ==
  Least({j \in Span(s, i) : \/ Ch(s, j) = ""
                            \/ Ch(s, j) = ":" /\ Ch(s, j + 1) \notin {"\\", "/", ":"}})

(* The sizes of an item: u the size, m what follows :max: if mx, else   *)
(* the size again and the position after :autoextend.                    *)
SizesOf(u, ae, mx, m) ==
  [size |-> u.megs, ae |-> ae, mx |-> mx, max |-> m.megs, end |-> m.end]

(* The :autoextend and :max:size after the size u.  Pass 1 keeps one    *)
(* size variable, which :max: overwrites.                                *)
SizesAfter(s, u) ==
  LET ae == At(s, u.end, ":autoextend")
      a1 == IF ae THEN u.end + 11 ELSE u.end
      mx == ae /\ At(s, a1, ":max:")
  IN SizesOf(u, ae, mx, IF mx THEN ParseUnits(s, a1 + 5)
                               ELSE [megs |-> u.megs, end |-> a1])

(* The size, :autoextend and :max:size after the path's ':' at j. *)
Sizes(s, j) == SizesAfter(s, ParseUnits(s, j))

(* Pass 1's "new" test, as if it did not ask for 6 characters. *)
Pass1NewNoLength(s, j) == At(s, j, "new")

(* Pass 1's "new" test: at least 6 characters remain and they start    *)
(* with "new".                                                           *)
Pass1New(s, j) == Len(s) - j + 1 >= 6 /\ At(s, j, "new")

(* PASS 1 on an item whose path ends at pe and whose sizes are z: the   *)
(* path must end in ':'; after :autoextend the string must end; new or  *)
(* raw need supports_raw; the size (or :max:) must not be 0; then ';'   *)
(* or the end.                                                           *)
Pass1Rest(s, raw, pe, z) ==
  LET nw == Pass1New(s, z.end)
      j  == IF nw THEN z.end + 3 ELSE z.end
      rw == At(s, j, "raw")
      k  == IF rw THEN j + 3 ELSE j
  IN [ok   |-> /\ Ch(s, pe) # ""
               /\ z.ae => Ch(s, z.end) = ""
               /\ (nw \/ rw) => raw
               /\ z.max # 0
               /\ Ch(s, k) \in {";", ""},
      next |-> IF Ch(s, k) = ";" THEN k + 1 ELSE k]

Pass1ItemAt(s, raw, pe) == Pass1Rest(s, raw, pe, Sizes(s, pe + 1))

(* PASS 1 on the item at i. *)
Pass1Item(s, i, raw) == Pass1ItemAt(s, raw, PathEnd(s, i))

(* The number of files pass 1 counts, or -1 when it returns false. *)
RECURSIVE Pass1From(_, _, _, _), Pass1Next(_, _, _, _)
Pass1Next(s, raw, n, it) == IF it.ok THEN Pass1From(s, it.next, raw, n + 1) ELSE -1

Pass1From(s, i, raw, n) ==
  IF Ch(s, i) = "" THEN n ELSE Pass1Next(s, raw, n, Pass1Item(s, i, raw))

(* parse_params returns false when pass 1 counts no file. *)
Pass1Result(n) == [ok |-> n > 0, n |-> n]

Pass1(s, raw) == Pass1Result(Pass1From(s, 1, raw, 0))

(* Pass 2's copy of the "new" test. *)
Pass2New(s, j) == Len(s) - j + 1 >= 6 /\ At(s, j, "new")

(* PASS 2 on the item at i whose path ends at pe and whose sizes are z: *)
(* the path is cut at its ':' if there is one; the file gets the first  *)
(* size; :max: sets m_last_file_size_max; text after :autoextend fails  *)
(* the parse; new or raw ut_a(supports_raw) and make the file raw; a    *)
(* ';' is skipped, anything else is not.                                 *)
Pass2Rest(s, i, raw, pe, z) ==
  LET nw == Pass2New(s, z.end)
      j  == IF nw THEN z.end + 3 ELSE z.end
      rw == At(s, j, "raw")
      k  == IF rw THEN j + 3 ELSE j
  IN [ok       |-> z.ae => Ch(s, z.end) = "",
      asserted |-> (nw \/ rw) => raw,
      file     |-> [path |-> SubSeq(s, i, pe - 1), size |-> z.size,
                    type |-> IF nw \/ rw
                               THEN IF Bootstrap THEN "new_raw" ELSE "old_raw"
                               ELSE "not_raw"],
      ae |-> z.ae, mx |-> z.mx, max |-> z.max,
      next |-> IF Ch(s, k) = ";" THEN k + 1 ELSE k]

Pass2ItemAt(s, i, raw, pe) ==
  Pass2Rest(s, i, raw, pe, Sizes(s, IF Ch(s, pe) = ":" THEN pe + 1 ELSE pe))

(* PASS 2 on the item at i. *)
Pass2Item(s, i, raw) == Pass2ItemAt(s, i, raw, PathEnd(s, i))

(* The loop of pass 2 until the end, a parse failure or a failed ut_a. *)
RECURSIVE Pass2From(_, _, _, _), Pass2Next(_, _, _, _)
Pass2Next(s, raw, acc, it) ==
  CASE ~it.ok       -> [acc EXCEPT !.ok = FALSE]
    [] ~it.asserted -> [acc EXCEPT !.asserted = FALSE]
    [] OTHER        ->
         Pass2From(s, it.next, raw,
                   [acc EXCEPT !.files = Append(@, it.file),
                               !.autoextend = @ \/ it.ae,
                               !.max = IF it.mx THEN it.max ELSE @])

Pass2From(s, i, raw, acc) ==
  IF Ch(s, i) = "" THEN acc ELSE Pass2Next(s, raw, acc, Pass2Item(s, i, raw))

Pass2(s, raw) ==
  Pass2From(s, 1, raw,
            [ok |-> TRUE, asserted |-> TRUE, files |-> <<>>,
             autoextend |-> FALSE, max |-> 0])

(* normalize_size: megabytes become pages. *)
NormalizeSize(c) ==
  [c EXCEPT !.files = [i \in DOMAIN @ |-> [@[i] EXCEPT !.size = @ * PagesPerMB]],
            !.max = @ * PagesPerMB]

(* parse_params followed by normalize_size. *)
Config(in) == NormalizeSize(Pass2(in, SupportsRaw))

(* The members parse_params fills, before any parse. *)
NoConf == [ok |-> TRUE, asserted |-> TRUE, files |-> <<>>, autoextend |-> FALSE, max |-> 0]

RECURSIVE SumSizes(_)
SumSizes(fs) == IF fs = <<>> THEN 0 ELSE Head(fs).size + SumSizes(Tail(fs))

(* get_increment: min(uint32(max) - last_file_size(), increment).  The   *)
(* unsigned subtraction wraps when the file is already past max, and the *)
(* wrapped value is then larger than the increment.                      *)
UintSubMin(a, b, inc) == IF a >= b THEN IF a - b < inc THEN a - b ELSE inc ELSE inc

(* get_increment, as if it ignored :max:. *)
GetIncrementIgnoresMax(max, last) == AutoextendIncrement

GetIncrement(max, last) ==
  IF max = 0 THEN AutoextendIncrement ELSE UintSubMin(max, last, AutoextendIncrement)

-----------------------------------------------------------------------------
(* A file on disk: its size in pages, the database whose pages it holds  *)
(* (0: none yet) and whether it carries a valid tablespace header page.  *)
NoFile == [exists |-> FALSE, size |-> 0, db |-> 0, header |-> FALSE]

VARIABLES
  disk,    \* the data files, which survive crashes and restarts
  gen,     \* the databases created so far
  phase,   \* where startup is: stopped, failed, check, open, init, header, running
  input,   \* innodb_data_file_path of this startup
  conf,    \* m_files, m_auto_extend_last_file, m_last_file_size_max
  cur,     \* the file that check_file_spec or open_or_create is at
  found,   \* Datafile::m_exists
  newDb    \* create_new_db

vars == <<disk, gen, phase, input, conf, cur, found, newDb>>

cfg == conf
NFiles == Len(cfg.files)
PathOf(i) == cfg.files[i].path
LastPath == PathOf(NFiles)
Used == LET RECURSIVE U(_)
            U(S) == IF S = {} THEN 0
                    ELSE LET p == CHOOSE p \in S : TRUE IN disk[p].size + U(S \ {p})
        IN U(Paths)

(* os_file_set_size, as if a short write did not fail it. *)
FitsUnchecked(k) == TRUE

(* os_file_set_size succeeds only for what the file system has room for. *)
Fits(k) == k <= DiskCap - Used

Init ==
  /\ disk = [p \in Paths |-> NoFile]
  /\ gen = 0
  /\ phase = "stopped"
  /\ input \in Written
  /\ conf = NoConf
  /\ cur = 1
  /\ found = [p \in Paths |-> FALSE]
  /\ newDb = FALSE

(* Startup with a (possibly edited) innodb_data_file_path: parse_params, *)
(* normalize_size and the checks that open check_file_spec.              *)
StartWith(in, c) ==
  /\ phase \in {"stopped", "failed"}
  /\ input' = in
  /\ conf' = c
  /\ phase' = IF /\ Pass1(in, SupportsRaw).ok /\ c.ok /\ c.asserted
                 /\ c.autoextend \/ SumSizes(c.files) >= MinSize
              THEN "check" ELSE "failed"
  /\ cur' = 1
  /\ found' = [p \in Paths |-> FALSE]
  /\ newDb' = FALSE
  /\ UNCHANGED <<disk, gen>>

Start(in) == StartWith(in, Config(in))

(* file_not_found's test for the first data file, as if every missing  *)
(* file were the first.                                                  *)
AnyDataFile(i) == TRUE

FirstDataFile(i) == i = 1

(* One iteration of check_file_spec: check_file_status, then             *)
(* file_not_found or file_found.  os_file_get_status may fail or find the *)
(* file not readable and writable.                                       *)
CheckFile(statOk) ==
  LET p == PathOf(cur) IN
  /\ phase = "check"
  /\ CASE ~disk[p].exists ->
            /\ found' = [found EXCEPT ![p] = FALSE]
            /\ newDb' = (newDb \/ FirstDataFile(cur))
            /\ phase' = IF cur = NFiles THEN "open" ELSE "check"
       [] ~statOk \/ newDb ->
            /\ phase' = "failed"
            /\ UNCHANGED <<found, newDb>>
       [] OTHER ->
            /\ found' = [found EXCEPT ![p] = TRUE]
            /\ newDb' = (cfg.files[cur].type = "new_raw")
            /\ phase' = IF cur = NFiles THEN "open" ELSE "check"
  /\ cur' = IF cur = NFiles THEN 1 ELSE cur + 1
  /\ UNCHANGED <<disk, gen, input, conf>>

(* check_size, as if it did not refuse an autoextending file that is     *)
(* smaller than specified.                                               *)
CheckSizeNoMinimum(i) ==
  LET rounded == disk[PathOf(i)].size IN
  IF i = NFiles /\ cfg.autoextend
    THEN cfg.max = 0 \/ cfg.max >= rounded
    ELSE rounded = cfg.files[i].size

(* check_size: the last file, when it autoextends, may be larger than    *)
(* specified but not smaller, and not larger than :max:; every other     *)
(* file must have exactly the specified number of pages.                 *)
CheckSize(i) ==
  LET rounded == disk[PathOf(i)].size IN
  IF i = NFiles /\ cfg.autoextend
    THEN /\ cfg.files[i].size <= rounded
         /\ cfg.max = 0 \/ cfg.max >= rounded
    ELSE rounded = cfg.files[i].size

(* Leaving open_or_create's loop: read_lsn_and_check_flags when the       *)
(* database exists, else the new database is initialised.               *)
AfterOpen == IF newDb THEN "init" ELSE "header"

(* One iteration of open_or_create: open_file with check_size for a file *)
(* that exists, create_file with set_size for one that does not.         *)
(* set_size writes the file full and fails when the disk fills up; a     *)
(* crash may also stop it; either leaves a shorter file behind.          *)
OpenFile ==
  LET p == PathOf(cur) IN
  /\ phase = "open" /\ found[p]
  /\ phase' = IF ~CheckSize(cur) THEN "failed"
              ELSE IF cur = NFiles THEN AfterOpen ELSE "open"
  /\ cur' = IF cur = NFiles THEN 1 ELSE cur + 1
  /\ UNCHANGED <<disk, gen, input, conf, found, newDb>>

CreateFile ==
  LET p == PathOf(cur)
      want == cfg.files[cur].size
  IN
  /\ phase = "open" /\ ~found[p]
  /\ \E k \in 0 .. want :
       /\ Fits(k)
       /\ disk' = [disk EXCEPT ![p] = [NoFile EXCEPT !.exists = TRUE, !.size = k]]
       /\ IF k = want
            THEN /\ phase' = IF cur = NFiles THEN AfterOpen ELSE "open"
                 /\ found' = [found EXCEPT ![p] = TRUE]
            ELSE /\ phase' \in {"stopped"} \cup (IF ~Fits(want) THEN {"failed"} ELSE {})
                 /\ UNCHANGED found
  /\ cur' = IF cur = NFiles THEN 1 ELSE cur + 1
  /\ UNCHANGED <<gen, input, conf, newDb>>

(* The files of the configuration that hold no database yet become part *)
(* of db: open_or_create adds every file to the space.                  *)
Adopt(d, db) ==
  [p \in Paths |->
     IF (\E i \in 1 .. NFiles : PathOf(i) = p) /\ d[p].db = 0
       THEN [d[p] EXCEPT !.db = db] ELSE d[p]]

(* read_lsn_and_check_flags: the first page of the first file must be a *)
(* valid header; there is no doublewrite copy of it to fall back on.    *)
(* Then the files are added to the system tablespace.                   *)
Header ==
  LET d1 == disk[PathOf(1)] IN
  /\ phase = "header"
  /\ phase' = IF d1.header THEN "running" ELSE "failed"
  /\ disk' = IF d1.header THEN Adopt(disk, d1.db) ELSE disk
  /\ UNCHANGED <<gen, input, conf, cur, found, newDb>>

(* srv_start for create_new_db: fsp_header_init writes the header of the *)
(* first file and the new database takes all the files.                  *)
InitDb ==
  /\ phase = "init"
  /\ gen < MaxGen
  /\ gen' = gen + 1
  /\ disk' = [Adopt(disk, gen + 1) EXCEPT ![PathOf(1)].header = TRUE,
                                          ![PathOf(1)].db = gen + 1]
  /\ phase' = "running"
  /\ UNCHANGED <<input, conf, cur, found, newDb>>

(* fsp_try_extend_data_file: the last file grows by get_increment()     *)
(* pages while the disk has room; a crash may cut the write short.      *)
Extend ==
  LET inc == GetIncrement(cfg.max, disk[LastPath].size) IN
  /\ phase = "running" /\ cfg.autoextend
  /\ inc > 0
  /\ \E k \in 1 .. inc :
       /\ Fits(k)
       /\ disk' = [disk EXCEPT ![LastPath].size = @ + k]
       /\ phase' = IF k = inc THEN "running" ELSE "stopped"
  /\ UNCHANGED <<gen, input, conf, cur, found, newDb>>

(* Shutdown or crash: only the data files remain. *)
Stop ==
  /\ phase \in {"check", "open", "header", "init", "running"}
  /\ phase' = "stopped"
  /\ UNCHANGED <<disk, gen, input, conf, cur, found, newDb>>

(* While the server is down the administrator may delete a data file. *)
RemoveFile(p) ==
  /\ phase \in {"stopped", "failed"}
  /\ disk[p].exists
  /\ disk' = [disk EXCEPT ![p] = NoFile]
  /\ UNCHANGED <<gen, phase, input, conf, cur, found, newDb>>

Next ==
  \/ \E in \in Inputs : Start(in)
  \/ \E ok \in BOOLEAN : CheckFile(ok)
  \/ OpenFile
  \/ CreateFile
  \/ Header
  \/ InitDb
  \/ Extend
  \/ Stop
  \/ \E p \in Paths : RemoveFile(p)

Spec == Init /\ [][Next]_vars

-----------------------------------------------------------------------------
TypeOK ==
  /\ disk \in [Paths -> [exists : BOOLEAN, size : 0 .. DiskCap,
                         db : 0 .. MaxGen, header : BOOLEAN]]
  /\ gen \in 0 .. MaxGen
  /\ phase \in {"stopped", "failed", "check", "open", "header", "init", "running"}
  /\ input \in STRING
  /\ cur \in 1 .. (IF NFiles = 0 THEN 1 ELSE NFiles)
  /\ found \in [Paths -> BOOLEAN]
  /\ newDb \in BOOLEAN

(* What pass 2 must do with a value pass 1 accepted. *)
PassesAgree(p1, p2) == p1.ok => p2.ok /\ p2.asserted /\ Len(p2.files) = p1.n

(* parse_params scans innodb_data_file_path twice, and the two scanners *)
(* are separate code: pass 1 returns false on every malformed item,     *)
(* pass 2 skips a ';' if there is one and carries on.  Whatever value    *)
(* pass 1 accepts, with or without supports_raw, pass 2 must accept     *)
(* without failing its ut_a(supports_raw) and store exactly the files   *)
(* pass 1 counted (ut_ad(n_files == m_files.size())).                    *)
ParsePassesAgree ==
  \A raw \in BOOLEAN : PassesAgree(Pass1(input, raw), Pass2(input, raw))

(* A new database is created only on files that hold no data: when the  *)
(* first data file is missing, no other configured file may exist with  *)
(* the pages of an earlier database (check_file_spec).                  *)
NewDbOnlyOnFreshFiles ==
  phase = "init" =>
    \A i \in 1 .. NFiles : disk[PathOf(i)].db = 0 /\ ~disk[PathOf(i)].header

(* A running server can be restarted with the same innodb_data_file_path: *)
(* across crashes during creation or extension, a full disk, deletions   *)
(* and configuration edits, the first file has a valid header and every  *)
(* file passes the next startup's check_size: the configured size, only  *)
(* the autoextending last file larger, but not larger than :max:.       *)
RunningMatchesConfig ==
  phase = "running" =>
    /\ disk[PathOf(1)].header
    /\ \A i \in 1 .. NFiles :
         IF i = NFiles /\ cfg.autoextend
           THEN /\ disk[PathOf(i)].size >= cfg.files[i].size
                /\ cfg.max > 0 => disk[PathOf(i)].size <= cfg.max
           ELSE disk[PathOf(i)].size = cfg.files[i].size

(* Every data file in use has at least one megabyte, as parse_params'    *)
(* "size specified is less than 1 megabyte" check intends.             *)
FilesAtLeastOneMB ==
  phase \notin {"stopped", "failed"} =>
    \A i \in 1 .. NFiles : cfg.files[i].size >= PagesPerMB
=============================================================================
