--------------------------------- MODULE Names ---------------------------------
(***************************************************************************)
(* Names and extensions as bytes: the fields of fixed width that requests  *)
(* and directory entries have, the C strings that the shell makes of what  *)
(* is typed, and the functions of string.c and stdmem.c between the two.   *)
(* The other modules have names that are equal or not; this one shows for  *)
(* which names the bytes agree with that.                                  *)
(*                                                                         *)
(* One entry is stored, by mkdir or by cp, and looked for under a name.    *)
(* Memory is a sequence of bytes from where a pointer points; a field that *)
(* is full has no terminator, and a C string goes on in the next field.    *)
(***************************************************************************)
EXTENDS Integers, Sequences, FiniteSetsExt

CONSTANTS
  NameSize, ExtSize,    \* 8 and 3
  Letters,              \* bytes that are typed, but the space and the dot
  MaxWord,              \* bound on the length of a typed word
  Room,                 \* the longest line that split copies within an array
  Sizes                 \* sizes of files; the disk has 2 ^ 20 bytes

NUL   == 0
Space == 32
Dot   == 46

ASSUME NamesAssumption ==
  /\ NameSize \in Nat \ {0} /\ ExtSize \in Nat \ {0}
  /\ MaxWord \in Nat /\ NameSize < MaxWord
  /\ Room \in Nat
  /\ Letters \subseteq 1 .. 127 /\ {Space, Dot} \cap Letters = {}
  /\ \A n \in Sizes : n \in Nat /\ n < 10 ^ 9

Words(lengths) == UNION {[1 .. n -> Letters] : n \in lengths}

-----------------------------------------------------------------------------
(* string.c and stdmem.c, as what the loops compute.                       *)

strlen(m) == Min({i \in DOMAIN m : m[i] = NUL}) - 1

\* The loop stops at the first difference and at the end of either.
Stops(a, b) ==
  {i \in DOMAIN a \cap DOMAIN b : a[i] # b[i] \/ a[i] = NUL}

strcmp(a, b) ==
  LET i == Min(Stops(a, b)) IN
    IF a[i] < b[i] THEN -1 ELSE IF a[i] > b[i] THEN 1 ELSE 0

memcmp(a, b, n) ==
  LET differ == {i \in 1 .. n : a[i] # b[i]} IN
    IF differ = {} THEN 0
    ELSE IF a[Min(differ)] < b[Min(differ)] THEN -1 ELSE 1

\* A mutation: room is kept for a terminator.
strncpy_terminated(src, n) ==
  [i \in 1 .. n |-> IF i < n /\ \A j \in 1 .. i : src[j] # NUL
                      THEN src[i] ELSE NUL]

\* A mutation: the loop goes to n.
strncpy_one_more(src, n) ==
  [i \in 1 .. n + 1 |-> IF i \in DOMAIN src /\ \A j \in 1 .. i : src[j] # NUL
                          THEN src[i] ELSE NUL]

\* n bytes: src up to its terminator, then zeros; no terminator of its own.
strncpy(src, n) ==
  [i \in 1 .. n |-> IF \A j \in 1 .. i : src[j] # NUL THEN src[i] ELSE NUL]

\* A mutation: the terminator is written one byte too far.
strcpy_ends_late(dest, src) ==
  [i \in DOMAIN dest |-> IF i =< strlen(src) THEN src[i]
                         ELSE IF i = strlen(src) + 2 THEN NUL ELSE dest[i]]

\* The terminator included, and whatever the size of the destination is.
strcpy(dest, src) ==
  [i \in DOMAIN dest |-> IF i =< strlen(src) + 1 THEN src[i] ELSE dest[i]]

CString(w) == Append(w, NUL)

\* The words before and behind position offset, as the shell cuts a line.
\* The whole of buf is copied into the first section before it is cut there
\* (string.c:73-76); the shell declares that one with offset bytes, and gets
\* whole units of its stack.  Fits(n): the n bytes of a line stay in them.
Fits(n) == n =< Room

split(buf, offset) ==
  << CString(SubSeq(buf, 1, offset - 1)),
     CString(SubSeq(buf, offset + 1, strlen(buf))) >>

\* A mutation: the dot stays with the name.
split_ext_dotted(buf) ==
  LET ends == {i \in 1 .. strlen(buf) : buf[i] = Dot} \cup {strlen(buf) + 1}
  IN << CString(SubSeq(buf, 1, Min(ends))),
        CString(SubSeq(buf, Min(ends) + 1, strlen(buf))) >>

\* The words before and behind the first dot.  A word that is as long as its
\* array has its terminator behind it (string.c:121, 130): see Mv.
split_ext(buf) ==
  LET ends == {i \in 1 .. strlen(buf) : buf[i] = Dot} \cup {strlen(buf) + 1}
  IN << CString(SubSeq(buf, 1, Min(ends) - 1)),
        CString(SubSeq(buf, Min(ends) + 1, strlen(buf))) >>

\* A mutation: the lowest digit first.
parse_int_unreversed(num) ==
  LET digits == Min({k \in 1 .. 9 : num < 10 ^ k}) IN
    CString([i \in 1 .. digits |-> 48 + ((num \div 10 ^ (i - 1)) % 10)])

\* The remainders by ten, reversed: from the highest digit to the lowest.
\* A file of the disk has fewer than 10 ^ 9 bytes.
parse_int(num) ==
  LET digits == Min({k \in 1 .. 9 : num < 10 ^ k}) IN
    CString([i \in 1 .. digits |-> 48 + ((num \div 10 ^ (digits - i)) % 10)])

-----------------------------------------------------------------------------
(* One entry and one command after the other.                              *)

VARIABLES
  stage,      \* empty, stored (there is an entry), looked (for a name), probed
  kind,       \* folder or file
  word, ext,  \* what was typed for the entry, and the extension of its source
  filesize,
  entry,      \* its bytes, from the name to behind the attribute
  request,    \* those of mkdir's request, behind buf
  sought,     \* the word that was looked for
  full,       \* a word that mv has cut off fills its array
  listed,     \* the driver sees that name in the table (memcmp)
  matched,    \* the shell does (strcmp)
  shown       \* the file size that ls prints

nameVars ==
  <<stage, kind, word, ext, filesize, entry, request, sought, full,
    listed, matched, shown>>

Zeros(n) == [i \in 1 .. n |-> NUL]

ATTR_FILE         == 0
ATTR_SUBDIRECTORY == 16

EntryBytes(name, e, attribute) == name \o e \o <<attribute>>

NameField(m) == SubSeq(m, 1, NameSize)
ExtField(m)  == SubSeq(m, NameSize + 1, NameSize + ExtSize)

\* parent_cluster_number and buffer_size, the low byte of each first.
Parent == <<2, 0>>
FolderRequest == Zeros(NameSize + ExtSize) \o Parent \o Zeros(2)

NamesInit ==
  /\ stage = "empty" /\ kind = "file" /\ word = << >> /\ ext = << >> /\ filesize = 0
  /\ entry = Zeros(NameSize + ExtSize + 1)
  /\ request = FolderRequest
  /\ sought = << >> /\ full = FALSE /\ listed = FALSE /\ matched = FALSE /\ shown = << >>

\* mkdir copies the word with strcpy.  A request for somewhere else, or with
\* a size, makes no folder here.
Mkdir(w) ==
  /\ stage = "empty" /\ Fits(6 + Len(w))
  /\ stage' = "stored" /\ kind' = "folder" /\ word' = w
  /\ request' = strcpy(FolderRequest, CString(w))
  /\ entry' = IF SubSeq(request', NameSize + ExtSize + 1, Len(request'))
                  = Parent \o Zeros(2)
                THEN EntryBytes(NameField(request'), Zeros(ExtSize),
                                ATTR_SUBDIRECTORY)
                ELSE entry
  /\ UNCHANGED <<ext, filesize, sought, full, listed, matched, shown>>

\* cp of a file with extension e and this size, as "cp from w" is typed.
CpTo(from, w, e, size) ==
  /\ stage = "empty" /\ Fits(3 + Len(from) + 1 + Len(w))
  /\ stage' = "stored" /\ kind' = "file" /\ word' = w /\ ext' = e
  /\ filesize' = size
  /\ LET args == split(CString(from \o <<Space>> \o w), Len(from) + 1) IN
       entry' = EntryBytes(strncpy(args[2], NameSize),
                           strncpy(CString(e), ExtSize), ATTR_FILE)
  /\ UNCHANGED <<request, sought, full, listed, matched, shown>>

Look(x, name, e, string) ==
  /\ stage = "stored" /\ Fits(3 + Len(x))
  /\ stage' = "looked" /\ sought' = x
  /\ listed' = (memcmp(entry, name, NameSize) = 0
                 /\ memcmp(ExtField(entry), e, ExtSize) = 0)
  /\ matched' = (strcmp(entry, string) = 0)
  /\ UNCHANGED <<kind, word, ext, filesize, entry, request, full>>

\* cd, with a word that fits: a longer one leaves its copy uninitialized.
Cd(x) ==
  /\ kind = "folder" /\ Len(x) =< NameSize
  /\ LET name == strncpy(CString(x), NameSize) IN
       Look(x, name, Zeros(ExtSize), EntryBytes(name, Zeros(ExtSize), 0))
  /\ UNCHANGED shown

\* cp and rm take the extension from the entry that the shell has found.
CpFrom(x) ==
  /\ kind = "file"
  /\ Look(x, strncpy(CString(x), NameSize), strncpy(ExtField(entry), ExtSize),
          CString(x))
  /\ UNCHANGED shown

\* The driver's answer to mv, which asks for a name without an extension.
Probed(name) ==
  memcmp(entry, strncpy(name, NameSize) \o Zeros(ExtSize),
         NameSize + ExtSize) = 0

\* mv of x.e to a name of m and an extension of n bytes asks the driver for x.
\* name1, ext1, name2 and ext2 have no byte for a terminator: that of a full
\* one may be the first byte of another.  mv then asks for the empty name,
\* takes an extension as missing, or a name for too long, and does not ask.
Mv(x, e, m, n) ==
  /\ stage = "stored" /\ kind = "file"
  /\ Fits(3 + Len(x) + 1 + Len(e) + 1 + m + 1 + n)
  /\ stage' = "probed" /\ sought' = x
  /\ full' = (Len(x) = NameSize \/ Len(e) = ExtSize
                \/ m = NameSize \/ n = ExtSize)
  /\ LET name == split_ext(CString(x \o <<Dot>> \o e))[1] IN
       listed' \in {Probed(name)}
                    \cup (IF full' THEN {Probed(CString(<< >>)), FALSE} ELSE {})
  /\ UNCHANGED <<kind, word, ext, filesize, entry, request, matched, shown>>

Ls ==
  /\ stage = "stored" /\ kind = "file"
  /\ shown' = parse_int(filesize)
  /\ UNCHANGED <<stage, kind, word, ext, filesize, entry, request, sought, full,
                 listed, matched>>

\* The entry is deleted, and another one is made.
Again ==
  /\ stage \in {"looked", "probed"}
  /\ stage' = "empty" /\ kind' = "file" /\ word' = << >> /\ ext' = << >>
  /\ filesize' = 0
  /\ entry' = Zeros(NameSize + ExtSize + 1)
  /\ request' = FolderRequest
  /\ sought' = << >> /\ full' = FALSE
  /\ listed' = FALSE /\ matched' = FALSE /\ shown' = << >>

NamesNext ==
  \/ \E w \in Words(1 .. MaxWord) : Mkdir(w)
  \/ \E from \in Words({1}), w \in Words(1 .. NameSize + 1),
        e \in Words(0 .. ExtSize), size \in Sizes : CpTo(from, w, e, size)
  \/ \E x \in Words(1 .. MaxWord) : Cd(x) \/ CpFrom(x)
  \/ \E x \in Words(1 .. NameSize), e \in Words(1 .. ExtSize),
        m \in 1 .. NameSize, n \in 1 .. ExtSize : Mv(x, e, m, n)
  \/ Ls
  \/ Again

NamesSpec == NamesInit /\ [][NamesNext]_nameVars

-----------------------------------------------------------------------------
(* Properties.                                                             *)

NamesTypeOK ==
  /\ stage \in {"empty", "stored", "looked", "probed"} /\ kind \in {"folder", "file"}
  /\ word \in Words(0 .. MaxWord) /\ sought \in Words(0 .. MaxWord)
  /\ ext \in Words(0 .. ExtSize) /\ filesize \in Nat
  /\ entry \in [1 .. NameSize + ExtSize + 1 -> 0 .. 127]
  /\ request \in [1 .. NameSize + ExtSize + 4 -> 0 .. 127]
  /\ {full, listed, matched} \subseteq BOOLEAN
  /\ shown \in Seq(0 .. 127)

\* mkdir's strcpy has no limit (commands.c:199): up to one byte less than name
\* and extension together the folder is made where it was asked for, and it
\* has the first NameSize bytes of the word.
LongNamesKeepRequest ==
  kind = "folder" /\ Len(word) < NameSize + ExtSize =>
    /\ SubSeq(request, NameSize + ExtSize + 1, NameSize + ExtSize + 2) = Parent
    /\ \A i \in 1 .. NameSize : entry[i] = IF i =< Len(word) THEN word[i] ELSE NUL

\* cd compares the folder's name twice, the driver with memcmp and the shell
\* with strcmp in a loop that has no other end (commands.c:104-107): the two
\* agree, on the name with no terminator included, and exactly the folder
\* whose first NameSize bytes were typed is found.
FolderFoundByName ==
  stage = "looked" /\ kind = "folder" /\ Len(word) < NameSize + ExtSize =>
    /\ listed = matched
    /\ matched <=> sought = SubSeq(word, 1, Min({Len(word), NameSize}))

\* What cp and rm find with strcmp the driver finds as well, and it is the
\* file of that name, unless the name fills its field and an extension
\* follows: strcmp then reads on into it (commands.c:312, 399).  mv, whatever
\* extension is typed, sees no file but the one that was stored without one
\* under the name, and does see it if no word fills the array it is split
\* into (commands.c:558-563).
FileFoundByName ==
  /\ stage = "looked" /\ kind = "file" =>
       /\ matched => listed
       /\ Len(word) < NameSize \/ (Len(word) = NameSize /\ ext = << >>)
            => (matched <=> sought = word)
  /\ stage = "probed" /\ Len(word) =< NameSize =>
       /\ listed => sought = word /\ ext = << >>
       /\ ~full => (sought = word /\ ext = << >> => listed)

\* The number that the digits d[1 .. n] stand for, the highest first.
ValueOf(d, n) ==
  LET value[i \in 0 .. n] ==
        IF i = 0 THEN 0 ELSE 10 * value[i - 1] + (d[i] - 48)
  IN value[n]

\* The digits that ls prints are the size: as many as there have to be, the
\* highest first (string.c:85-112).
SizeShown ==
  shown # << >> =>
    LET n == strlen(shown) IN
      /\ filesize = ValueOf(shown, n)
      /\ n > 1 => shown[1] # 48
=============================================================================
