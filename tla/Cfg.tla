-------------------------------- MODULE Cfg --------------------------------
(***************************************************************************)
(* The configuration of donky: the lists of cfg.c, how parse_cfg fills     *)
(* them from the lines of a file, the lookups, and the cfg command of      *)
(* protocol.c.                                                             *)
(*                                                                         *)
(* A line is a record of what the scans of parse_cfg make of it.  Texts    *)
(* are values; what a text is worth as a number or a boolean is given by   *)
(* functions.                                                              *)
(***************************************************************************)
EXTENDS Integers, SequencesExt

CONSTANTS
    Names,       \* what is written as a section's name or as a key
    Canon,       \* Canon[n]: n as strcasecmp compares it
    Texts,       \* what is written as a value
    Null,        \* the NULL pointer: no value, no section yet
    Empty,       \* the empty string
    True,        \* the value "True" of a key without a value
    Integer,     \* Integer[x]: atoi of the text x
    Double,      \* Double[x]: atof of the text x, in thousandths
    Truth        \* Truth[x]: 1 when its first character is in IS_TRUE, 0 when
                 \* it is in IS_FALSE, Null otherwise

ASSUME CfgAssumption ==
    /\ Canon \in [Names -> Names]
    /\ Null \notin Names \cup Texts \cup {Empty}
    /\ True \in Texts
    /\ Integer \in [Texts -> Int] /\ Double \in [Texts -> Int]
    /\ Truth \in [Texts -> {0, 1, Null}]

(* "comment": after blanks, a semicolon.  "section": [name].  "setting":   *)
(* key = text, in quotes or not.  "emptied": key = "".  "flag": the key    *)
(* alone, and also `key =' with nothing behind it, because the blank of    *)
(* the third format swallows the end of the line.  "junk": no scan fits.   *)
Forms == {"comment", "section", "setting", "emptied", "flag", "junk"}
Line == [form : Forms, name : Names, text : Texts]

(* The lists: struct mod_ls as a sequence of sections, struct setting_ls   *)
(* as a sequence of settings.                                              *)
Setting == [key : Names, value : Texts \cup {Null}]
Section == [mod : Names, settings : Seq(Setting)]

ASSUME NullAssumption == Null \notin Seq(Section)
-----------------------------------------------------------------------------
SameName(a, b) == Canon[a] = Canon[b]

(* The first position of s whose element passes P, or 0.                   *)
FirstWhere(s, P(_)) == SelectInSeq(s, P)

find_mod(c, m) == FirstWhere(c, LAMBDA s : SameName(s.mod, m))

add_mod(c, m) == Append(c, [mod |-> m, settings |-> <<>>])

(* The setting goes to the first section of that name, not to the one that *)
(* was opened last, which is where the faulty one puts it.                 *)
add_setting_last(c, m, k, v) ==
    [c EXCEPT ![Len(c)].settings = Append(@, [key |-> k, value |-> v])]
add_setting(c, m, k, v) ==
    IF find_mod(c, m) = 0 THEN c
    ELSE [c EXCEPT ![find_mod(c, m)].settings =
                        Append(@, [key |-> k, value |-> v])]

(* The value of the first setting of that key, or Null: find_setting, and  *)
(* the test for NULL that every get_..._key makes.                         *)
find_setting(c, m, k) ==
    IF find_mod(c, m) = 0 THEN Null
    ELSE LET s == c[find_mod(c, m)].settings
             i == FirstWhere(s, LAMBDA x : SameName(x.key, k))
         IN IF i = 0 THEN Null ELSE s[i].value

get_char_key(c, m, k, otherwise) ==
    IF find_setting(c, m, k) = Null THEN otherwise ELSE find_setting(c, m, k)

get_int_key(c, m, k, otherwise) ==
    IF find_setting(c, m, k) = Null THEN otherwise
    ELSE Integer[find_setting(c, m, k)]

get_double_key(c, m, k, otherwise) ==
    IF find_setting(c, m, k) = Null THEN otherwise
    ELSE Double[find_setting(c, m, k)]

get_bool_key(c, m, k, otherwise) ==
    LET v == find_setting(c, m, k)
    IN IF v = Null \/ Truth[v] = Null THEN otherwise ELSE Truth[v]
-----------------------------------------------------------------------------
(* parse_cfg.  mod is the section that was opened last.                    *)
NoLines == [cfg |-> <<>>, mod |-> Null]

Stored(line) ==
    CASE line.form = "setting" -> line.text
      [] line.form = "emptied" -> Null
      [] line.form = "flag"    -> True

ParseLine(st, line) ==
    CASE line.form = "section" ->
            [cfg |-> add_mod(st.cfg, line.name), mod |-> line.name]
      [] line.form \in {"setting", "emptied", "flag"} /\ st.mod # Null ->
            [st EXCEPT !.cfg = add_setting(st.cfg, st.mod, line.name, Stored(line))]
      [] OTHER -> st

parse_cfg(file) == FoldLeft(ParseLine, NoLines, file).cfg

(* protocol_command_cfg, with four fields: what is sent back.              *)
protocol_command_cfg(c, m, k, type) ==
    CASE type = 0 -> <<"char", get_char_key(c, m, k, Empty)>>
      [] type = 1 -> <<"int", get_int_key(c, m, k, -1)>>
      [] type = 2 -> <<"double", get_double_key(c, m, k, -1000)>>
      [] type = 3 -> <<"bool", get_bool_key(c, m, k, -1)>>
      [] OTHER -> <<"ERROR">>
-----------------------------------------------------------------------------
(* cfg.h says that a lookup returns the value of the setting in a section  *)
(* of the user's donkyrc, or otherwise when there is none.  Which line is  *)
(* meant when several set the key it leaves open; the code takes the first *)
(* of those in all sections of that name, and this is it, said of the file *)
(* and not of the lists.                                                   *)
OpenSection(file, i) ==
    LET opened == {j \in 1..(i - 1) : file[j].form = "section"}
    IN IF opened = {} THEN Null
       ELSE file[CHOOSE j \in opened : \A l \in opened : l <= j].name

Sets(file, m, k) ==
    {i \in DOMAIN file :
        /\ file[i].form \in {"setting", "emptied", "flag"}
        /\ OpenSection(file, i) # Null
        /\ SameName(OpenSection(file, i), m)
        /\ SameName(file[i].name, k)}

Promised(file, m, k) ==
    LET at == Sets(file, m, k)
    IN IF at = {} THEN Null
       ELSE Stored(file[CHOOSE i \in at : \A j \in at : i <= j])

(* What the cfg command is to answer for the text it finds, or finds not.  *)
Answer(text, type) ==
    CASE type = 0 -> <<"char", IF text = Null THEN Empty ELSE text>>
      [] type = 1 -> <<"int", IF text = Null THEN -1 ELSE Integer[text]>>
      [] type = 2 -> <<"double", IF text = Null THEN -1000 ELSE Double[text]>>
      [] type = 3 ->
            <<"bool", IF text = Null \/ Truth[text] = Null THEN -1 ELSE Truth[text]>>
      [] OTHER -> <<"ERROR">>

(* For every section and key, in whatever case it is asked for, the cfg    *)
(* command answers from the first line for it, across sections that are    *)
(* opened twice.                                                           *)
FirstLineCounts(c, f) ==
    \A m, k \in Names :
        LET text == Promised(f, m, k) IN
        \A type \in 0..4 :
            protocol_command_cfg(c, m, k, type) = Answer(text, type)
=============================================================================
