------------------------------ MODULE MCHandoff ------------------------------
(* Sizes on either side of every distance between two objects.             *)
EXTENDS Handoff

\* The memory of aarch64 starts at 1 GiB.  That of the others starts beyond TLC's
\* integers: only that it is far above 0x1000 matters.
MCRamStart == [m \in {"aarch64", "riscv64", "loongarch64"} |-> 1024 * MiB]

MCKernelSizes == {511, 512, 513, 28160, 28161, 37376, 65536, 2 * MiB, 2 * MiB + 1,
                  31 * MiB, 31 * MiB + 1}
MCInitrdSizes == {0, 1, 8 * MiB}
\* "root=/dev/sda1 ro" has 17 characters
MCCmdlineLengths == {0, 11, 12, 17, 27, 28, 223, 224}
MCHeaders == {[load_addr |-> MiB, load_end_addr |-> MiB + 65536, bss_end_addr |-> 2 * MiB],
              [load_addr |-> MiB, load_end_addr |-> MiB + 512, bss_end_addr |-> 0],
              [load_addr |-> MiB, load_end_addr |-> 0, bss_end_addr |-> 3 * MiB]}

\* Also beyond TLC's integers: far above every other address.
MCHighHalf == 1536 * MiB

Elf(entry, segments) == [class |-> 64, type |-> 2, entry |-> entry, segments |-> segments]
Segment(vaddr, filesz, memsz) == [vaddr |-> vaddr, filesz |-> filesz, memsz |-> memsz]
MCElfs == {
  Elf(2 * MiB, << Segment(2 * MiB, 512, 65536) >>),
  Elf(MiB + 16, << Segment(MiB, 65536, 65536), Segment(MiB + 65536, 512, 1024) >>),
  \* zeros of the first over nothing yet, the second over these zeros
  Elf(MiB, << Segment(MiB, 512, 65536), Segment(MiB + 4096, 512, 512) >>),
  \* up to the response at 0x1000, and one byte into it
  Elf(3584, << Segment(3584, 512, 0) >>), Elf(3585, << Segment(3585, 512, 0) >>),
  \* from the end of the file's record on, and at the command line
  Elf(4392, << Segment(4392, 472, 472) >>), Elf(4864, << Segment(4864, 16, 16) >>),
  \* the upper half: entered at its start, behind it, and at a physical address
  Elf(MCHighHalf, << Segment(MCHighHalf, 65536, 65536) >>),
  Elf(MCHighHalf + 4096, << Segment(MCHighHalf, 65536, 65536), Segment(MCHighHalf + 65536, 512, 4096) >>),
  Elf(2 * MiB + 16, << Segment(MCHighHalf, 512, 512) >>),
  \* entered where the file has nothing
  Elf(MiB + 512, << Segment(MiB, 512, 1024) >>),
  [Elf(MiB, << Segment(MiB, 512, 512) >>) EXCEPT !.class = 32],
  [Elf(MiB, << Segment(MiB, 512, 512) >>) EXCEPT !.type = 3]}
=============================================================================
