--------------------------- MODULE MCSysTablespace ---------------------------
(* Two data file paths and the innodb_data_file_path values an          *)
(* administrator might start the server with: sizes below, at and above *)
(* one megabyte, with and without :autoextend and :max:, one file or    *)
(* two, the two files in either order, and a raw device.  One megabyte  *)
(* is one page here, so the sizes stay small.                           *)
EXTENDS SysTablespace

SE == INSTANCE SequencesExt

MCInputs ==
  { "a:1M", "a:2M", "a:512K", "a:2Mraw",
    "a:1M:autoextend", "a:2M:autoextend",
    "a:1M:autoextend:max:2M", "a:2M:autoextend:max:1M",
    "a:512K:autoextend:max:1M",
    "a:1M;b:1M", "b:1M;a:1M",
    "a:1M;b:1M:autoextend", "a:1M;b:1M:autoextend:max:2M",
    "a:1M:autoextend;b:1M" }
(* The configurations whose :max: is not below the first size. *)
MCInputsMaxAboveSize == MCInputs \ {"a:2M:autoextend:max:1M"}

(* The values innodb_data_file_path may hold before the first startup:  *)
(* every string of up to four pieces, each a path character, a size, a  *)
(* separator, a keyword or a part of one.  They contain Windows-style   *)
(* "::" and ":/" paths, empty items, "new" with fewer than six          *)
(* characters left, :autoextend followed by more text, missing ';' and  *)
(* missing ':'.                                                          *)
MCPieces == {"a", ":", "/", "1M", "512K", ";", "new", "raw", ":autoextend", ":max:"}
MCWritten == {SE!FlattenSeq(w) : w \in SE!SeqOf(MCPieces, 4) \ {<<>>}}
=============================================================================
