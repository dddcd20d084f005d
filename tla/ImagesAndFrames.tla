--------------------------- MODULE ImagesAndFrames ---------------------------
(***************************************************************************)
(* The images of apps and the frames of APDUs as functions of an input that *)
(* is given in two steps, and what is asked of each input.                  *)
(***************************************************************************)
EXTENDS AppImage, Ble

VARIABLES
    subject,        \* the part of the system that the behaviour is about
    input           \* the input of a function

Given(f) == subject = f /\ Len(input) = 2

\* A segment of an ELF file, with bytes of T.
IsElf(elf, T) ==
    elf.vaddr \in Nat /\ elf.bytes \in Seq(T) /\ elf.memsz \in Nat /\ Len(elf.bytes) =< elf.memsz

\* The two segments of a program: the code, which is read only, is in the file, and the data
\* is behind it, with no more bytes out of the file than the manifest has pages for.
IsProgram(elf_code, elf_data, T) ==
    /\ IsElf(elf_code, T) /\ IsElf(elf_data, T)
    /\ elf_code.memsz = Len(elf_code.bytes)
    /\ elf_data.memsz =< Len(elf_data.bytes) + HEAP_SIZE
    /\ elf_code.vaddr + elf_code.memsz =< elf_data.vaddr

\* An APDU of a length, and the lengths of a request and of a reply of two frames at most.
ApduOf(k) == [i \in 1 .. k |-> i]
AreLengths(request, reply) ==
    request \in Nat \ {0} /\ reply \in Nat \ {0} /\ reply =< Room(0) + Room(1)
-----------------------------------------------------------------------------
\* An app in memory is the program of its ELF file, and host, HSM and device agree on it.
ProgramsRun == Given("image") => RunsTheProgram(input[1], input[2])

\* APDUs of every length go whole over Bluetooth.
FramesCarryTheApdu == Given("ble") => ArrivesWhole(ApduOf(input[1]), ApduOf(input[2]))
=============================================================================
