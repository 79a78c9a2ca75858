\* Blocks of eight bytes, sectors of four, write units of two; slots that are and
\* are not whole numbers of them; files of up to eighteen bytes.
CONSTANTS
  BlockSize = 8  EraseSize = 4  SectorSize = 4  WriteSize = 2
  Capacities = {12, 16, 18}  MaxSize = 18
  Old = Old  Erased = Erased  None = None
SPECIFICATION Spec
INVARIANTS TypeOK EraseFits FileComplete FaultsTrue
PROPERTY Ends
