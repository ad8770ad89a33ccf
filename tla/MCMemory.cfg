\* The allocator: two chunks of four bits with a reserved page in each.  The
\* bootstrap: pages of 8 bytes and chunks of 2, so that the code takes back one or
\* two pages for bitmaps of one to three.
SPECIFICATION MemorySpec
CONSTANTS
  ChunkBits = 4
  NumChunks = 2
  Reserved <- MCReserved
  MaxBlock = 4
  MemoryMaps <- SmallMaps
  PageBytes = 8
  BitsPerChunk = 16
  ChunkBytes = 2
  Lengths = {3, 8, 13, 400}
  Stretches = 3
INVARIANTS
  NoAssertFails
  FirstBitmapRight
PROPERTY
  RefinesPageAllocator
