------------------------------- MODULE Config -------------------------------
(***************************************************************************)
(* The configuration file and the beginning of main: mnet/config.c and     *)
(* mrouter.c up to the router context.  A file is text cut into tokens: a  *)
(* word of letters, digits and dots, or one other character.               *)
(***************************************************************************)
EXTENDS Integers, Sequences, SequencesExt, FiniteSetsExt

CONSTANTS
    Words,      \* words other than those of the program itself
    Chunks,     \* token sequences an editor adds to a file
    MaxEdits,   \* bound: additions to the file
    MaxStarts,  \* bound: starts of the daemon
    LineMax,    \* tokens a line buffer holds
    Homes       \* values of $HOME, token sequences or NoHome

\* Characters that are no part of a word; Other is such as / and _.
Space == "sp"
Hash == "#"
Equals == "="
Newline == "nl"
Other == "/"

\* MNET_CONFIG_CRYPTO_CHECK, MNET_CONFIG_LOG_LEVEL, MNET_CONFIG_ROUTER_DIR and
\* the key that mnet_config_gen writes.
CheckKey == <<"mnet.crypto.check">>
LevelKey == <<"mnet.log.level">>
DirKey == <<"mnet.router.dir">>
GenKey == <<"mnet.datadir">>
One == <<"1">>

Alnum == Words \cup {CheckKey[1], LevelKey[1], DirKey[1], GenKey[1], One[1], "usr", "config"}

Token == Alnum \cup {Space, Hash, Equals, Newline, Other}

NoHome == <<"no home">>
Absent == <<"absent">>
Null == <<"NULL">>    \* a pointer that is not set, or one printed

ASSUME LineMaxAssumption == LineMax \in Nat \ {0}
ASSUME TextAssumption == Chunks \cup (Homes \ {NoHome}) \subseteq Seq(Token)
\* What stands for a missing value is no value.
ASSUME NullAssumption == Null \notin Seq(Token)

VARIABLES
    file,       \* tokens of the configuration file, or Absent
    env,        \* [home, root]: $HOME, and whether $MNET_ROOT is set
    pc,         \* where main is
    pos,        \* of the reader in the file
    list,       \* entries of the config, newest first
    conf,       \* struct main_config and the log level
    edits, starts

cfgvars == <<file, env, pc, pos, list, conf, edits, starts>>

\* default_crypto_config, default_router_context_config, L_INFO
DefaultConf == [sanity |-> TRUE, level |-> Null, datadir |-> Null]

-----------------------------------------------------------------------------
(* A line. *)

\* s from its first token that Stop holds of; s up to there.
From(s, Stop(_)) ==
    LET i == SelectInSeq(s, Stop) IN IF i = 0 THEN <<>> ELSE SubSeq(s, i, Len(s))
UpTo(s, Stop(_)) == SubSeq(s, 1, Len(s) - Len(From(s, Stop)))

SkipSpaces(s) == From(s, LAMBDA c : c # Space)
NoChar(c) == c \notin Alnum
ToComment(s) == UpTo(s, LAMBDA c : c \in {Hash, Newline})

Skipped == [key |-> "skipped"]
Bad == [key |-> "bad"]
IsEntry(e) == e \notin {Skipped, Bad}

\* Mutant of Parse: no spaces are expected between a key and its value.
ParseTight(line) ==
    LET s == SkipSpaces(line)
        t == From(s, NoChar)
    IN  IF s # <<>> /\ s[1] \in {Hash, Newline} THEN Skipped
        ELSE IF t # <<>> /\ t[1] = Equals
             THEN [key |-> UpTo(s, NoChar), val |-> ToComment(Tail(t))]
        ELSE Bad

\* The body of the loop of mnet_config_load.  A blank before a comment stays
\* part of the value.
Parse(line) ==
    LET s == SkipSpaces(line)
        t == SkipSpaces(From(s, NoChar))
    IN  IF s # <<>> /\ s[1] \in {Hash, Newline} THEN Skipped
        ELSE IF t # <<>> /\ t[1] = Equals
             THEN [key |-> UpTo(s, NoChar), val |-> ToComment(SkipSpaces(Tail(t)))]
        ELSE Bad

\* fgets: the text from p to the end of its line, or as much as the buffer has
\* room for.
Line(f, p) ==
    LET tail == SubSeq(f, p, Len(f))
        nl   == SelectInSeq(tail, LAMBDA c : c = Newline)
        n    == Min({IF nl = 0 THEN Len(tail) ELSE nl, LineMax})
    IN  SubSeq(tail, 1, n)

-----------------------------------------------------------------------------
(* The default file. *)

Entry(k, v) == k \o <<Space, Equals, Space>> \o v \o <<Newline>>

GenDir(home) ==
    IF home = NoHome THEN <<Other, Other, "usr">> ELSE home \o <<Other, "config">>

\* The entries are written newest first.
Generated(home) ==
    <<Hash, Newline, Hash, Newline, Newline>>
        \o Entry(LevelKey, One) \o Entry(GenKey, GenDir(home)) \o Entry(CheckKey, One)

-----------------------------------------------------------------------------
(* main *)

CfgInit ==
    /\ file = Absent
    /\ env \in [home : Homes, root : BOOLEAN]
    /\ pc = "off" /\ pos = 1 /\ list = <<>> /\ conf = DefaultConf
    /\ edits = 0 /\ starts = 0

\* check_file
StartMain ==
    /\ pc = "off" /\ starts < MaxStarts
    /\ pc' = IF file = Absent THEN "gen" ELSE "load"
    /\ starts' = starts + 1
    /\ UNCHANGED <<file, env, pos, list, conf, edits>>

\* fopen(filepath, "w") of mnet_config_gen, which may fail.
GenOpen ==
    /\ pc = "gen"
    /\ \/ pc' = "failed" /\ UNCHANGED file
       \/ pc' = "write" /\ file' = <<>>
    /\ UNCHANGED <<env, pos, list, conf, edits, starts>>

\* fclose of mnet_config_gen: nobody looks at what it returns, and a disk
\* without room keeps a part.
GenClose ==
    /\ pc = "write" /\ pc' = "load"
    /\ \E n \in 0 .. Len(Generated(env.home)) : file' = SubSeq(Generated(env.home), 1, n)
    /\ UNCHANGED <<env, pos, list, conf, edits, starts>>

\* fopen(filepath, "r") of mnet_config_load.
Load ==
    /\ pc = "load"
    /\ pc' \in {"read", "failed"}
    /\ UNCHANGED <<file, env, pos, list, conf, edits, starts>>

\* Mutant of AppendEntry: the list is kept in the order of the file.
AppendEntryLast(entries, e) == Append(entries, e)

\* mnet_config_append_entry
AppendEntry(entries, e) == <<e>> \o entries

LoadLine ==
    /\ pc = "read" /\ pos <= Len(file)
    /\ LET line == Line(file, pos)
           e    == Parse(line)
       IN  /\ pos' = pos + Len(line)
           /\ pc' = IF e = Bad THEN "refused" ELSE pc
           /\ list' = IF IsEntry(e) THEN AppendEntry(list, e) ELSE list
    /\ UNCHANGED <<file, env, conf, edits, starts>>

LoadEnd ==
    /\ pc = "read" /\ pos > Len(file)
    /\ pc' = "iter"
    /\ UNCHANGED <<file, env, pos, list, conf, edits, starts>>

\* One turn of mnet_config_for_each with iter_config_main, which copies the key
\* of the data directory.
IterConfigMain ==
    /\ pc = "iter" /\ list # <<>>
    /\ list' = Tail(list)
    /\ LET e == Head(list)
       IN  conf' = CASE e.key = CheckKey -> [conf EXCEPT !.sanity = e.val = One]
                     [] e.key = LevelKey -> [conf EXCEPT !.level = e.val]
                     [] e.key = DirKey -> [conf EXCEPT !.datadir = e.key]
                     [] OTHER -> conf
    /\ UNCHANGED <<file, env, pc, pos, edits, starts>>

\* memcpy to config.router.datadir, which is NULL, of all but an empty or an
\* overlong $MNET_ROOT; without $HOME, path_join prints a NULL.
DefaultDir ==
    /\ pc = "iter" /\ list = <<>>
    /\ \/ /\ conf.datadir # Null
          /\ pc' = "up" /\ UNCHANGED conf
       \/ /\ conf.datadir = Null /\ env.root
          /\ pc' \in {"crashed", "up"} /\ UNCHANGED conf
       \/ /\ conf.datadir = Null /\ ~env.root
          /\ pc' = "up"
          /\ conf' = [conf EXCEPT !.datadir = IF env.home = NoHome THEN Null \o <<Other, "mnet">>
                                              ELSE env.home \o <<Other, "mnet">>]
    /\ UNCHANGED <<file, env, pos, list, edits, starts>>

\* main returns, or the process is killed wherever it is.
Exit ==
    /\ pc # "off" /\ pc' = "off"
    /\ pos' = 1 /\ list' = <<>> /\ conf' = DefaultConf
    /\ UNCHANGED <<file, env, edits, starts>>

\* Somebody writes the file; not while main reads it.
Edit(c) ==
    /\ pc \in {"off", "gen"} /\ edits < MaxEdits
    /\ file' = (IF file = Absent THEN <<>> ELSE file) \o c
    /\ edits' = edits + 1
    /\ UNCHANGED <<env, pc, pos, list, conf, starts>>

CfgNext ==
    \/ StartMain \/ GenOpen \/ GenClose \/ Load \/ LoadLine \/ LoadEnd
    \/ IterConfigMain \/ DefaultDir \/ Exit
    \/ \E c \in Chunks : Edit(c)

CfgSpec == CfgInit /\ [][CfgNext]_cfgvars

-----------------------------------------------------------------------------
(* Properties. *)

\* A line of the file begins at p: after a newline, or where a buffer was full.
Begins(p) ==
    LET nl == Max({0} \cup {i \in 1 .. p - 1 : file[i] = Newline})
    IN  (p - 1 - nl) % LineMax = 0

\* The value that the first line for key gives it, Null if there is none.
FirstValue(key) ==
    LET e(p) == Parse(Line(file, p))
        ps   == {p \in DOMAIN file : Begins(p) /\ IsEntry(e(p)) /\ e(p).key = key}
    IN  IF ps = {} THEN Null ELSE e(Min(ps)).val

\* A loaded list is gone through newest first, so of several lines for a key
\* the one first in the file decides, and a key without a line keeps the
\* program's default.  Without a line for the data directory, main may end in
\* the default it sets from $MNET_ROOT.
FirstLineWins ==
    pc \in {"up", "crashed"} =>
        /\ conf.sanity = (FirstValue(CheckKey) \in {Null, One})
        /\ conf.level = FirstValue(LevelKey)
        /\ (conf.datadir = DirKey) = (FirstValue(DirKey) # Null)
        /\ pc = "crashed" => FirstValue(DirKey) = Null /\ env.root

\* A daemon does not refuse a file that it generated, nor the empty one that is
\* left when it is killed at that; and a file that it generated turns the sanity
\* check on and sets the log level, wherever the home directory is, a name with
\* a # in it included.
OwnFileLoads ==
    /\ pc = "refused" => file \notin {<<>>, Generated(env.home)}
    /\ pc = "up" /\ file = Generated(env.home) => conf.sanity /\ conf.level = One

=============================================================================
