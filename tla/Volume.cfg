SPECIFICATION VolumeSpec
CONSTANT Width = 4
INVARIANTS
  VolumeTypeOK
  MusicAtStoredVolume
  SliderShowsStored
