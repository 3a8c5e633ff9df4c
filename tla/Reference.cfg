\* Two threads, two pointers and a plain word in the first segment, three other segments.
CONSTANTS
  t1 = t1
  t2 = t2
  s1 = s1
  s2 = s2
  s3 = s3
  a = a
  Threads = {t1, t2}
  Data = {a}
  r = r
  q = q
  Roots = {r, q}
  Segs = {s1, s2, s3}
  Values = {Zero}
  Zero = Zero
  Garbage = Garbage
  Free = Free
  None = None
SPECIFICATION Spec
INVARIANTS TypeOK ListOfSegments NoDanglingAddress
PROPERTY ImplementsAtomicMemory
SYMMETRY Interchangeable
