----------------------------- MODULE Multiboot2 -----------------------------
(***************************************************************************)
(* The Multiboot2 information structure: mbi2_builder lays tags out as     *)
(* bytes, mb2_reader_generic walks them again.  A byte of the structure is *)
(* <<n, k>>, the k-th byte of the n-th tag, or Pad; contents of payloads   *)
(* are left out, their lengths are not.                                    *)
(***************************************************************************)
EXTENDS Integers, Sequences, SequencesExt

CONSTANTS Lengths,    \* bound: lengths of command lines and numbers of memory regions
          MaxTags     \* bound: tags before build()

VARIABLES
    raw_data,      \* the tags added: type, size and aligned size
    image,         \* what build() returned: total_size and the bytes
    current_tag,   \* the reader's position, -1 before it is created
    visited        \* the tags the reader has dereferenced

xvars == <<raw_data, image, current_tag, visited>>

ALIGNMENT == 8
FixedSize == 8      \* sizeof(mbi2_fixed)
TagSize == 8        \* sizeof(mbi2_tag)
Pad == <<0, 0>>
Null == [type |-> 0, size |-> TagSize]

align(n) == ((n + ALIGNMENT - 1) \div ALIGNMENT) * ALIGNMENT

NoImage == [total_size |-> 0, bytes |-> <<>>]

XInit == raw_data = <<>> /\ image = NoImage /\ current_tag = -1 /\ visited = <<>>
-----------------------------------------------------------------------------
(* Fault: the tag is not padded.                                           *)
add_tag_packed(type, header, payload) ==
    raw_data' = Append(raw_data, [type |-> type, size |-> header + payload, aligned |-> header + payload])

add_tag(type, header, payload) ==
    raw_data' = Append(raw_data, [type |-> type, size |-> header + payload, aligned |-> align(header + payload)])

(* The public operations.  Strings get a trailing NUL; an entry of the     *)
(* memory map has 24 bytes, the RSDP 36.                                   *)
Add ==
    /\ image = NoImage /\ Len(raw_data) < MaxTags
    /\ \/ \E n \in Lengths : add_tag(1, 8, n + 1)        \* add_boot_cmdline
       \/ add_tag(15, 8, 36)                             \* add_rsdp
       \/ \E n \in Lengths : add_tag(6, 16, 24 * n)      \* add_memory
       \/ \E n \in Lengths : add_tag(3, 16, n + 1)       \* add_boot_module
       \/ add_tag(12, 16, 0)                             \* add_system_table
       \/ add_tag(21, 12, 0)                             \* add_image_load_base
    /\ UNCHANGED <<image, current_tag, visited>>

Bytes(n, tag) == [k \in 1 .. tag.aligned |-> IF k <= tag.size THEN <<n, k - 1>> ELSE Pad]

build ==
    /\ image = NoImage
    /\ LET tags == FlattenSeq([n \in 1 .. Len(raw_data) |-> Bytes(n, raw_data[n])])
           null == [k \in 1 .. TagSize |-> <<Len(raw_data) + 1, k - 1>>]
       IN image' = [total_size |-> FixedSize + Len(tags) + TagSize, bytes |-> tags \o null]
    /\ UNCHANGED <<raw_data, current_tag, visited>>

Tag(n) == IF n = Len(raw_data) + 1 THEN Null ELSE [type |-> raw_data[n].type, size |-> raw_data[n].size]

(* operator*: the bytes at the position as a tag; bytes that are no        *)
(* tag's beginning read as a tag of size 0.                                *)
generic(pos) ==
    LET byte == image.bytes[pos - FixedSize + 1]
    IN IF byte # Pad /\ byte[2] = 0 THEN Tag(byte[1]) ELSE [type |-> -1, size |-> 0]

mbi2_reader ==
    /\ image # NoImage /\ current_tag = -1
    /\ current_tag' = FixedSize                           \* begin()
    /\ UNCHANGED <<raw_data, image, visited>>

(* One round of a loop from begin() to end().                              *)
Increment ==
    /\ current_tag # -1 /\ current_tag # image.total_size
    /\ visited' = Append(visited, generic(current_tag))
    /\ current_tag' = current_tag + align(generic(current_tag).size)
    /\ UNCHANGED <<raw_data, image>>

(* find_tag(): the first tag of the type on the way to end().              *)
find_tag(type) ==
    IF \E i \in 1 .. Len(visited) : visited[i].type = type
    THEN visited[SelectInSeq(visited, LAMBDA tag : tag.type = type)] ELSE Null

Done == current_tag = image.total_size /\ current_tag # -1 /\ UNCHANGED xvars

XNext == Add \/ build \/ mbi2_reader \/ Increment \/ Done
-----------------------------------------------------------------------------
(* What the builder lays out is what the reader finds: it visits exactly   *)
(* the tags that were added, in order and with their sizes, then the null  *)
(* tag, and meets end() exactly, whatever the lengths; find_tag() returns  *)
(* the first tag of its type.                                              *)
ReadsBack ==
    /\ current_tag <= image.total_size
    /\ \A i \in 1 .. Len(visited) : i <= Len(raw_data) + 1 /\ visited[i] = Tag(i)
    /\ current_tag = image.total_size => Len(visited) = Len(raw_data) + 1
    /\ current_tag = image.total_size => \A i \in 1 .. Len(raw_data) :
         (\A j \in 1 .. i - 1 : raw_data[j].type # raw_data[i].type) => find_tag(raw_data[i].type) = Tag(i)
=============================================================================
